---- MODULE Spec2Model ----
(***************************************************************************)
(* Authorization and data-integrity model of the academic-records          *)
(* application: the schema store (profiles, user_roles, cursos, alunos,    *)
(* matriculas), the has_role predicate, the row-level policies, the        *)
(* provisioning and timestamp triggers, and the client data-access         *)
(* modules that issue statements against the store.                        *)
(*                                                                         *)
(* A statement is one atomic step of the store.  Within a statement the    *)
(* store checks, in this order: the row-level policy (USING filters the    *)
(* existing rows of UPDATE/DELETE silently, WITH CHECK rejects a new row   *)
(* with an error), NOT NULL and CHECK constraints, UNIQUE constraints,     *)
(* and foreign keys; ON DELETE CASCADE removes the referencing rows with   *)
(* the privileges of the table owner.  A value that cannot be read as its  *)
(* column's type is refused before any of these.                           *)
(*                                                                         *)
(* A client module sends a request, the store executes it as one           *)
(* statement, and the module resumes after its await when the answer       *)
(* arrives; these are three steps, and answers arrive in any order.        *)
(***************************************************************************)
EXTENDS Integers, FiniteSets, Sequences, TLC

VARIABLES auth_users, profiles, user_roles, cursos, alunos, matriculas,
          seq, now, last, client

dbVars == <<auth_users, profiles, user_roles, cursos, alunos, matriculas, seq, now>>
vars == <<auth_users, profiles, user_roles, cursos, alunos, matriculas, seq, now,
          last, client>>

----------------------------------------------------------------------------
(* Bounds: how many identifiers each id generator hands out.               *)
MaxUsers == 2
MaxRoleRows == 2
MaxCursos == 2
MaxAlunos == 2
MaxMatriculas == 2
(* How many requests a client module has in flight at once.                *)
MaxInflight == 1
(* How many requests of unmounted managers are outstanding at once.        *)
MaxOrphaned == 1
(* How far the store's clock advances.                                     *)
MaxNow == 2
(* How far the clock advances while the submission forms are in use.      *)
MaxSubmitNow == 1

(* SQL NULL of type uuid (auth.uid() of a caller without a session) and of *)
(* type text.                                                              *)
NULL_UUID == 0
NULL_TEXT == "<null>"
NULL_INT == -999

(* The empty string sent where a uuid is expected (the enrollment form's   *)
(* initial aluno_id and curso_id).                                         *)
EMPTY_UUID == -1

app_role == {"admin", "leitor"}
status_matricula == {"ATIVO", "INATIVO", "TRANCADO", "FORMADO"}

Emails == {"ana@x", "bia@x"}
Nomes == {"Bia"}

(* A caller is identified by auth.uid(): NULL_UUID for the anon role, the  *)
(* subject id for the authenticated role.  A token can outlive its         *)
(* subject, so every id ever issued is a possible caller.                  *)
Callers == {NULL_UUID} \cup (1..seq.users)

DbRole(uid) == IF uid = NULL_UUID THEN "anon" ELSE "authenticated"

(* Three-valued SQL equality; a policy or a WHERE clause passes only on    *)
(* "true".                                                                 *)
SqlEq(a, b) ==
  IF a = NULL_UUID \/ b = NULL_UUID THEN "null"
  ELSE IF a = b THEN "true" ELSE "false"

JsonGetText(obj, key) == IF key \in DOMAIN obj THEN obj[key] ELSE NULL_TEXT

COALESCE(a, b) == IF a # NULL_TEXT THEN a ELSE b

ApplyPatch(row, patch) ==
  [c \in DOMAIN row |-> IF c \in DOMAIN patch THEN patch[c] ELSE row[c]]

RowById(table, id) == CHOOSE r \in table : r.id = id

NoRow == [id |-> NULL_UUID]

----------------------------------------------------------------------------
(* has_role: EXISTS (SELECT 1 FROM user_roles WHERE user_id = _user_id AND *)
(* role = _role), evaluated with the definer's privileges (no policy       *)
(* applies to the inner SELECT).                                           *)
has_role_any_role(_user_id, _role) ==
  \E r \in user_roles : SqlEq(r.user_id, _user_id) = "true"

has_role(_user_id, _role) ==
  \E r \in user_roles : SqlEq(r.user_id, _user_id) = "true" /\ r.role = _role

----------------------------------------------------------------------------
(* Row-level policies.  Each takes auth.uid() and the row.  Policies       *)
(* without a TO clause apply to every role; those declared TO              *)
(* authenticated apply only to callers with a session.                     *)

Usuarios_podem_ver_seu_proprio_perfil(uid, row) == SqlEq(uid, row.id) = "true"

Usuarios_podem_atualizar_seu_proprio_perfil_or_admin(uid, row) ==
  SqlEq(uid, row.id) = "true" \/ has_role(uid, "admin")

Usuarios_podem_atualizar_seu_proprio_perfil(uid, row) == SqlEq(uid, row.id) = "true"

Admins_podem_ver_todos_os_perfis(uid, row) == has_role(uid, "admin")

Admins_podem_gerenciar_roles_or_self(uid, row) ==
  has_role(uid, "admin") \/ SqlEq(uid, row.user_id) = "true"

Admins_podem_gerenciar_roles(uid, row) == has_role(uid, "admin")

Usuarios_podem_ver_suas_proprias_roles(uid, row) == SqlEq(uid, row.user_id) = "true"

Todos_autenticados_podem_ver_cursos(uid, row) == DbRole(uid) = "authenticated"

Admins_podem_gerenciar_cursos(uid, row) == has_role(uid, "admin")

Todos_autenticados_podem_ver_alunos_public(uid, row) == TRUE

Todos_autenticados_podem_ver_alunos(uid, row) == DbRole(uid) = "authenticated"

Admins_podem_gerenciar_alunos(uid, row) == has_role(uid, "admin")

Todos_autenticados_podem_ver_matriculas(uid, row) == DbRole(uid) = "authenticated"

Admins_podem_gerenciar_matriculas_any_session(uid, row) == DbRole(uid) = "authenticated"

Admins_podem_gerenciar_matriculas(uid, row) == has_role(uid, "admin")

(* The permissive policies of a table that apply to a command are OR-ed;   *)
(* with row level security enabled and no applicable policy the row is     *)
(* denied.                                                                 *)
PolicyAllows(table, cmd, uid, row) ==
  CASE table = "profiles" ->
         \/ cmd = "SELECT" /\ Usuarios_podem_ver_seu_proprio_perfil(uid, row)
         \/ cmd = "UPDATE" /\ Usuarios_podem_atualizar_seu_proprio_perfil(uid, row)
         \/ cmd = "SELECT" /\ Admins_podem_ver_todos_os_perfis(uid, row)
    [] table = "user_roles" ->
         \/ Admins_podem_gerenciar_roles(uid, row)
         \/ cmd = "SELECT" /\ Usuarios_podem_ver_suas_proprias_roles(uid, row)
    [] table = "cursos" ->
         \/ cmd = "SELECT" /\ Todos_autenticados_podem_ver_cursos(uid, row)
         \/ Admins_podem_gerenciar_cursos(uid, row)
    [] table = "alunos" ->
         \/ cmd = "SELECT" /\ Todos_autenticados_podem_ver_alunos(uid, row)
         \/ Admins_podem_gerenciar_alunos(uid, row)
    [] table = "matriculas" ->
         \/ cmd = "SELECT" /\ Todos_autenticados_podem_ver_matriculas(uid, row)
         \/ Admins_podem_gerenciar_matriculas(uid, row)

(* UPDATE ... WHERE id = x and DELETE ... WHERE id = x read the id column, *)
(* so the SELECT policies must pass as well as the command's own.          *)
CanTarget(table, cmd, uid, row) ==
  PolicyAllows(table, cmd, uid, row) /\ PolicyAllows(table, "SELECT", uid, row)

----------------------------------------------------------------------------
(* The response of the last statement: what was asked and what the store   *)
(* answered.  rows holds the ids a SELECT returned; for a DELETE it holds  *)
(* the ids of the enrollments the cascade removed.                         *)
Resp(stmt, table, caller, id, row, error, count, rows) ==
  [stmt |-> stmt, table |-> table, caller |-> caller, id |-> id,
   row |-> row, error |-> error, count |-> count, rows |-> rows]

NoResp == Resp("none", "none", NULL_UUID, NULL_UUID, NoRow, "none", 0, {})

(* NOW() in a statement is the start time of the transaction the          *)
(* statement runs in: the same within the transaction, and any reading of  *)
(* the clock up to the present one, since a transaction that began earlier *)
(* may execute its statement after one that began later.  The actions of   *)
(* the store take it as NOW.                                               *)

(* update_updated_at_column: BEFORE UPDATE trigger on profiles, cursos and *)
(* alunos: NEW.updated_at = NOW().                                         *)
update_updated_at_column(NEWROW, NOW) == [NEWROW EXCEPT !.updated_at = NOW]

(* The store's clock advances.                                             *)
Tick ==
  /\ now < MaxNow
  /\ now' = now + 1
  /\ UNCHANGED <<auth_users, profiles, user_roles, cursos, alunos, matriculas, seq, last>>

----------------------------------------------------------------------------
(* Auth subjects and profiles                                              *)

(* handle_new_user: AFTER INSERT trigger on auth.users; the row it inserts *)
(* into profiles.                                                          *)
handle_new_user_wrong_email(NEWROW, NOW) ==
  [id |-> NEWROW.id,
   nome_completo |-> COALESCE(JsonGetText(NEWROW.raw_user_meta_data, "nome_completo"), "Usuário"),
   email |-> "ana@x",
   created_at |-> NOW, updated_at |-> NOW]

handle_new_user(NEWROW, NOW) ==
  [id |-> NEWROW.id,
   nome_completo |-> COALESCE(JsonGetText(NEWROW.raw_user_meta_data, "nome_completo"), "Usuário"),
   email |-> NEWROW.email,
   created_at |-> NOW, updated_at |-> NOW]

ProfileConstraintError(new, others) ==
  IF \E p \in others : p.id = new.id \/ p.email = new.email THEN "unique"
  ELSE IF ~ \E a \in auth_users : a.id = new.id THEN "fk"
  ELSE "none"

(* signUp: the provider inserts the auth.users row and the trigger runs in *)
(* the same transaction; an error in either rolls both back.               *)
CreateAuthSubject(email, meta) ==
  \E NOW \in 0..now :
  LET NEWROW == [id |-> seq.users + 1, email |-> email, raw_user_meta_data |-> meta]
      prof == handle_new_user(NEWROW, NOW)
      err == IF \E a \in auth_users : a.email = email THEN "User already registered"
             ELSE IF \E p \in profiles : p.id = prof.id \/ p.email = prof.email
                  THEN "unique"
                  ELSE "none"
  IN /\ err = "none" => seq.users < MaxUsers
     /\ IF err = "none"
        THEN /\ auth_users' = auth_users \cup {NEWROW}
             /\ profiles' = profiles \cup {prof}
             /\ seq' = [seq EXCEPT !.users = @ + 1]
        ELSE UNCHANGED <<auth_users, profiles, seq>>
     /\ last' = Resp("signup", "auth.users", NULL_UUID,
                     IF err = "none" THEN NEWROW.id ELSE NULL_UUID,
                     [id |-> NEWROW.id, email |-> email], err,
                     IF err = "none" THEN 1 ELSE 0, {})
     /\ UNCHANGED <<user_roles, cursos, alunos, matriculas, now>>

(* Deleting the auth subject cascades to its profile (profiles.id          *)
(* REFERENCES auth.users ON DELETE CASCADE) and from there to its role     *)
(* assignments (user_roles.user_id REFERENCES profiles ON DELETE CASCADE). *)
DeleteAuthSubject(id) ==
  /\ \E a \in auth_users : a.id = id
  /\ auth_users' = {a \in auth_users : a.id # id}
  /\ profiles' = {p \in profiles : p.id # id}
  /\ user_roles' = {r \in user_roles : r.user_id # id}
  /\ last' = Resp("delete", "auth.users", NULL_UUID, id, NoRow, "none", 1, {})
  /\ UNCHANGED <<cursos, alunos, matriculas, seq, now>>

(* UPDATE profiles SET <patch> WHERE id = <id>, by a client.               *)
(* id, nome_completo and email are NOT NULL.                               *)
ProfileNotNullError(new) ==
  IF new.id = NULL_UUID \/ new.nome_completo = NULL_TEXT \/ new.email = NULL_TEXT
  THEN "not_null" ELSE "none"

UpdateProfile(caller, id, patch) ==
  \E NOW \in 0..now :
  LET target == {p \in profiles : p.id = id /\ CanTarget("profiles", "UPDATE", caller, p)}
  IN IF target = {}
     THEN /\ last' = Resp("update", "profiles", caller, id, patch, "none", 0, {})
          /\ UNCHANGED dbVars
     ELSE LET old == RowById(profiles, id)
              new == update_updated_at_column(ApplyPatch(old, patch), NOW)
              err == IF ~ CanTarget("profiles", "UPDATE", caller, new) THEN "rls"
                     ELSE IF ProfileNotNullError(new) # "none"
                          THEN ProfileNotNullError(new)
                     ELSE ProfileConstraintError(new, profiles \ {old})
          IN /\ profiles' = IF err = "none" THEN (profiles \ {old}) \cup {new} ELSE profiles
             /\ last' = Resp("update", "profiles", caller, id, patch, err,
                             IF err = "none" THEN 1 ELSE 0, {})
             /\ UNCHANGED <<auth_users, user_roles, cursos, alunos, matriculas, seq, now>>

(* INSERT INTO profiles (<vals>), by a client.  Row level security is on    *)
(* and profiles has no INSERT policy.                                      *)
InsertProfile(caller, vals) ==
  \E NOW \in 0..now :
  LET new == ApplyPatch([id |-> NULL_UUID, nome_completo |-> NULL_TEXT,
                         email |-> NULL_TEXT, created_at |-> NOW, updated_at |-> NOW],
                        vals)
      err == IF ~ PolicyAllows("profiles", "INSERT", caller, new) THEN "rls"
             ELSE IF ProfileNotNullError(new) # "none" THEN ProfileNotNullError(new)
             ELSE ProfileConstraintError(new, profiles)
  IN /\ profiles' = IF err = "none" THEN profiles \cup {new} ELSE profiles
     /\ last' = Resp("insert", "profiles", caller,
                     IF err = "none" THEN new.id ELSE NULL_UUID, vals, err,
                     IF err = "none" THEN 1 ELSE 0, {})
     /\ UNCHANGED <<auth_users, user_roles, cursos, alunos, matriculas, seq, now>>

(* DELETE FROM profiles WHERE id = <id>, by a client; profiles has no       *)
(* DELETE policy.  user_roles.user_id REFERENCES profiles(id) ON DELETE     *)
(* CASCADE.                                                                *)
DeleteProfile_select_policy(caller, id) ==
  LET target == {p \in profiles : p.id = id /\ CanTarget("profiles", "SELECT", caller, p)}
  IN /\ profiles' = profiles \ target
     /\ user_roles' = {r \in user_roles : ~ \E p \in target : r.user_id = p.id}
     /\ last' = Resp("delete", "profiles", caller, id, NoRow, "none",
                     Cardinality(target), {})
     /\ UNCHANGED <<auth_users, cursos, alunos, matriculas, seq, now>>

DeleteProfile(caller, id) ==
  LET target == {p \in profiles : p.id = id /\ CanTarget("profiles", "DELETE", caller, p)}
  IN /\ profiles' = profiles \ target
     /\ user_roles' = {r \in user_roles : ~ \E p \in target : r.user_id = p.id}
     /\ last' = Resp("delete", "profiles", caller, id, NoRow, "none",
                     Cardinality(target), {})
     /\ UNCHANGED <<auth_users, cursos, alunos, matriculas, seq, now>>

(* SELECT * FROM <table>, by a client: the rows the SELECT policies let    *)
(* through.                                                                *)
TableRows(table) ==
  CASE table = "profiles" -> profiles
    [] table = "user_roles" -> user_roles
    [] table = "cursos" -> cursos
    [] table = "alunos" -> alunos
    [] table = "matriculas" -> matriculas

Visible(table, caller) ==
  {r \in TableRows(table) : PolicyAllows(table, "SELECT", caller, r)}

Select(caller, table) ==
  /\ last' = Resp("select", table, caller, NULL_UUID, NoRow, "none",
                  Cardinality(Visible(table, caller)),
                  {r.id : r \in Visible(table, caller)})
  /\ UNCHANGED dbVars

(* rpc('has_role', {_user_id, _role}): the function runs with the          *)
(* definer's privileges, so its answer does not depend on who calls it.    *)
RpcHasRole(_user_id, _role) ==
  /\ last' = Resp("rpc", "has_role", NULL_UUID, _user_id, [id |-> _user_id, role |-> _role],
                  "none", IF has_role(_user_id, _role) THEN 1 ELSE 0, {})
  /\ UNCHANGED dbVars

----------------------------------------------------------------------------
(* Role assignments                                                        *)

RoleConstraintError(new, others) ==
  IF \E r \in others : r.user_id = new.user_id /\ r.role = new.role THEN "unique"
  ELSE IF ~ \E p \in profiles : p.id = new.user_id THEN "fk"
  ELSE "none"

(* The table owner (migrations, the platform's console) is not subject to  *)
(* row level security: this is how the first admin comes to exist.         *)
OwnerInsertUserRole(user_id, role) ==
  \E NOW \in 0..now :
  LET new == [id |-> seq.user_roles + 1, user_id |-> user_id, role |-> role,
              created_at |-> NOW]
      err == RoleConstraintError(new, user_roles)
  IN /\ err = "none"
     /\ seq.user_roles < MaxRoleRows
     /\ user_roles' = user_roles \cup {new}
     /\ seq' = [seq EXCEPT !.user_roles = @ + 1]
     /\ last' = Resp("owner_insert", "user_roles", NULL_UUID, new.id, new, "none", 1, {})
     /\ UNCHANGED <<auth_users, profiles, cursos, alunos, matriculas, now>>

InsertUserRole(caller, user_id, role) ==
  \E NOW \in 0..now :
  LET new == [id |-> seq.user_roles + 1, user_id |-> user_id, role |-> role,
              created_at |-> NOW]
      err == IF ~ PolicyAllows("user_roles", "INSERT", caller, new) THEN "rls"
             ELSE RoleConstraintError(new, user_roles)
  IN /\ err = "none" => seq.user_roles < MaxRoleRows
     /\ IF err = "none"
        THEN /\ user_roles' = user_roles \cup {new}
             /\ seq' = [seq EXCEPT !.user_roles = @ + 1]
        ELSE UNCHANGED <<user_roles, seq>>
     /\ last' = Resp("insert", "user_roles", caller,
                     IF err = "none" THEN new.id ELSE NULL_UUID,
                     [user_id |-> user_id, role |-> role], err,
                     IF err = "none" THEN 1 ELSE 0, {})
     /\ UNCHANGED <<auth_users, profiles, cursos, alunos, matriculas, now>>

UpdateUserRole(caller, id, patch) ==
  LET target == {r \in user_roles : r.id = id /\ CanTarget("user_roles", "UPDATE", caller, r)}
  IN IF target = {}
     THEN /\ last' = Resp("update", "user_roles", caller, id, patch, "none", 0, {})
          /\ UNCHANGED dbVars
     ELSE LET old == RowById(user_roles, id)
              new == ApplyPatch(old, patch)
              err == IF ~ CanTarget("user_roles", "UPDATE", caller, new) THEN "rls"
                     ELSE RoleConstraintError(new, user_roles \ {old})
          IN /\ user_roles' = IF err = "none" THEN (user_roles \ {old}) \cup {new}
                              ELSE user_roles
             /\ last' = Resp("update", "user_roles", caller, id, patch, err,
                             IF err = "none" THEN 1 ELSE 0, {})
             /\ UNCHANGED <<auth_users, profiles, cursos, alunos, matriculas, seq, now>>

DeleteUserRole(caller, id) ==
  LET target == {r \in user_roles : r.id = id /\ CanTarget("user_roles", "DELETE", caller, r)}
  IN /\ user_roles' = user_roles \ target
     /\ last' = Resp("delete", "user_roles", caller, id, NoRow, "none",
                     Cardinality(target), {})
     /\ UNCHANGED <<auth_users, profiles, cursos, alunos, matriculas, seq, now>>

----------------------------------------------------------------------------
(* Courses                                                                 *)

CursoConstraintError_nome_only(new, others) ==
  IF new.nome = NULL_TEXT \/ new.codigo_curso = NULL_TEXT
     \/ new.duracao_semestres = NULL_INT
  THEN "not_null"
  ELSE IF \E c \in others : c.nome = new.nome
       THEN "unique"
       ELSE "none"

CursoConstraintError(new, others) ==
  IF new.nome = NULL_TEXT \/ new.codigo_curso = NULL_TEXT
     \/ new.duracao_semestres = NULL_INT
  THEN "not_null"
  ELSE IF \E c \in others : c.nome = new.nome \/ c.codigo_curso = new.codigo_curso
       THEN "unique"
       ELSE "none"

(* INSERT INTO cursos (<vals>): an omitted column takes its default, and   *)
(* is null where the table declares none.                                  *)
InsertCurso(caller, vals) ==
  \E NOW \in 0..now :
  LET new == ApplyPatch([id |-> seq.cursos + 1, nome |-> NULL_TEXT,
                         codigo_curso |-> NULL_TEXT, duracao_semestres |-> NULL_INT,
                         created_at |-> NOW, updated_at |-> NOW], vals)
      err == IF ~ PolicyAllows("cursos", "INSERT", caller, new) THEN "rls"
             ELSE CursoConstraintError(new, cursos)
  IN /\ err = "none" => seq.cursos < MaxCursos
     /\ IF err = "none"
        THEN /\ cursos' = cursos \cup {new}
             /\ seq' = [seq EXCEPT !.cursos = @ + 1]
        ELSE UNCHANGED <<cursos, seq>>
     /\ last' = Resp("insert", "cursos", caller,
                     IF err = "none" THEN new.id ELSE NULL_UUID, vals, err,
                     IF err = "none" THEN 1 ELSE 0, {})
     /\ UNCHANGED <<auth_users, profiles, user_roles, alunos, matriculas, now>>

(* UPDATE cursos SET <patch> WHERE id = <id>.                              *)
UpdateCurso_patch_ignored(caller, id, patch) ==
  \E NOW \in 0..now :
  LET target == {c \in cursos : c.id = id /\ CanTarget("cursos", "UPDATE", caller, c)}
  IN IF target = {}
     THEN /\ last' = Resp("update", "cursos", caller, id, patch, "none", 0, {})
          /\ UNCHANGED dbVars
     ELSE LET old == RowById(cursos, id)
              new == update_updated_at_column(old, NOW)
              err == IF ~ CanTarget("cursos", "UPDATE", caller, new) THEN "rls"
                     ELSE CursoConstraintError(new, cursos \ {old})
          IN /\ cursos' = IF err = "none" THEN (cursos \ {old}) \cup {new} ELSE cursos
             /\ last' = Resp("update", "cursos", caller, id, patch, err,
                             IF err = "none" THEN 1 ELSE 0, {})
             /\ UNCHANGED <<auth_users, profiles, user_roles, alunos, matriculas, seq, now>>

UpdateCurso(caller, id, patch) ==
  \E NOW \in 0..now :
  LET target == {c \in cursos : c.id = id /\ CanTarget("cursos", "UPDATE", caller, c)}
  IN IF target = {}
     THEN /\ last' = Resp("update", "cursos", caller, id, patch, "none", 0, {})
          /\ UNCHANGED dbVars
     ELSE LET old == RowById(cursos, id)
              new == update_updated_at_column(ApplyPatch(old, patch), NOW)
              err == IF ~ CanTarget("cursos", "UPDATE", caller, new) THEN "rls"
                     ELSE CursoConstraintError(new, cursos \ {old})
          IN /\ cursos' = IF err = "none" THEN (cursos \ {old}) \cup {new} ELSE cursos
             /\ last' = Resp("update", "cursos", caller, id, patch, err,
                             IF err = "none" THEN 1 ELSE 0, {})
             /\ UNCHANGED <<auth_users, profiles, user_roles, alunos, matriculas, seq, now>>

(* DELETE FROM cursos WHERE id = <id>; matriculas.curso_id REFERENCES      *)
(* cursos(id) ON DELETE CASCADE.                                           *)
DeleteCurso_no_cascade(caller, id) ==
  LET target == {c \in cursos : c.id = id /\ CanTarget("cursos", "DELETE", caller, c)}
  IN /\ cursos' = cursos \ target
     /\ last' = Resp("delete", "cursos", caller, id, NoRow, "none",
                     Cardinality(target), {})
     /\ UNCHANGED <<auth_users, profiles, user_roles, alunos, matriculas, seq, now>>

DeleteCurso(caller, id) ==
  LET target == {c \in cursos : c.id = id /\ CanTarget("cursos", "DELETE", caller, c)}
  IN /\ cursos' = cursos \ target
     /\ matriculas' = {m \in matriculas : ~ \E c \in target : m.curso_id = c.id}
     /\ last' = Resp("delete", "cursos", caller, id, NoRow, "none",
                     Cardinality(target),
                     {m.id : m \in {x \in matriculas : \E c \in target : x.curso_id = c.id}})
     /\ UNCHANGED <<auth_users, profiles, user_roles, alunos, seq, now>>

----------------------------------------------------------------------------
(* Students                                                                *)

AlunoConstraintError_no_cpf(new, others) ==
  IF \E col \in {"nome_completo", "matricula", "cpf", "email", "data_nascimento"} :
        new[col] = NULL_TEXT
  THEN "not_null"
  ELSE IF \E a \in others : \/ a.matricula = new.matricula
                            \/ a.email = new.email
       THEN "unique"
       ELSE "none"

AlunoConstraintError(new, others) ==
  IF \E col \in {"nome_completo", "matricula", "cpf", "email", "data_nascimento"} :
        new[col] = NULL_TEXT
  THEN "not_null"
  ELSE IF \E a \in others : \/ a.matricula = new.matricula
                            \/ a.cpf = new.cpf
                            \/ a.email = new.email
       THEN "unique"
       ELSE "none"

(* data_nascimento is a DATE: the empty string cannot be read as one, and  *)
(* the statement is refused before any row is looked at.                   *)
InsertAluno(caller, vals) ==
  \E NOW \in 0..now :
  LET new == ApplyPatch([id |-> seq.alunos + 1, nome_completo |-> NULL_TEXT,
                         matricula |-> NULL_TEXT, cpf |-> NULL_TEXT,
                         email |-> NULL_TEXT, data_nascimento |-> NULL_TEXT,
                         telefone |-> NULL_TEXT, status |-> "ATIVO",
                         created_at |-> NOW, updated_at |-> NOW], vals)
      err == IF new.data_nascimento = "" THEN "invalid_date"
             ELSE IF ~ PolicyAllows("alunos", "INSERT", caller, new) THEN "rls"
             ELSE AlunoConstraintError(new, alunos)
  IN /\ err = "none" => seq.alunos < MaxAlunos
     /\ IF err = "none"
        THEN /\ alunos' = alunos \cup {new}
             /\ seq' = [seq EXCEPT !.alunos = @ + 1]
        ELSE UNCHANGED <<alunos, seq>>
     /\ last' = Resp("insert", "alunos", caller,
                     IF err = "none" THEN new.id ELSE NULL_UUID, vals, err,
                     IF err = "none" THEN 1 ELSE 0, {})
     /\ UNCHANGED <<auth_users, profiles, user_roles, cursos, matriculas, now>>

UpdateAluno(caller, id, patch) ==
  \E NOW \in 0..now :
  LET target == {a \in alunos : a.id = id /\ CanTarget("alunos", "UPDATE", caller, a)}
  IN IF "data_nascimento" \in DOMAIN patch /\ patch.data_nascimento = ""
     THEN /\ last' = Resp("update", "alunos", caller, id, patch, "invalid_date", 0, {})
          /\ UNCHANGED dbVars
     ELSE IF target = {}
     THEN /\ last' = Resp("update", "alunos", caller, id, patch, "none", 0, {})
          /\ UNCHANGED dbVars
     ELSE LET old == RowById(alunos, id)
              new == update_updated_at_column(ApplyPatch(old, patch), NOW)
              err == IF ~ CanTarget("alunos", "UPDATE", caller, new) THEN "rls"
                     ELSE AlunoConstraintError(new, alunos \ {old})
          IN /\ alunos' = IF err = "none" THEN (alunos \ {old}) \cup {new} ELSE alunos
             /\ last' = Resp("update", "alunos", caller, id, patch, err,
                             IF err = "none" THEN 1 ELSE 0, {})
             /\ UNCHANGED <<auth_users, profiles, user_roles, cursos, matriculas, seq, now>>

(* DELETE FROM alunos WHERE id = <id>; matriculas.aluno_id REFERENCES      *)
(* alunos(id) ON DELETE CASCADE.                                           *)
DeleteAluno(caller, id) ==
  LET target == {a \in alunos : a.id = id /\ CanTarget("alunos", "DELETE", caller, a)}
  IN /\ alunos' = alunos \ target
     /\ matriculas' = {m \in matriculas : ~ \E a \in target : m.aluno_id = a.id}
     /\ last' = Resp("delete", "alunos", caller, id, NoRow, "none",
                     Cardinality(target),
                     {m.id : m \in {x \in matriculas : \E a \in target : x.aluno_id = a.id}})
     /\ UNCHANGED <<auth_users, profiles, user_roles, cursos, seq, now>>

----------------------------------------------------------------------------
(* Enrollments                                                             *)

MatriculaConstraintError_no_unique(new, others) ==
  IF new.aluno_id = NULL_UUID \/ new.curso_id = NULL_UUID
     \/ new.ano_ingresso = NULL_INT \/ new.semestre_ingresso = NULL_INT
  THEN "not_null"
  ELSE IF new.semestre_ingresso \notin {1, 2} THEN "check"
  ELSE IF ~ (\E a \in alunos : a.id = new.aluno_id) \/ ~ (\E c \in cursos : c.id = new.curso_id)
       THEN "fk"
       ELSE "none"

MatriculaConstraintError(new, others) ==
  IF new.aluno_id = NULL_UUID \/ new.curso_id = NULL_UUID
     \/ new.ano_ingresso = NULL_INT \/ new.semestre_ingresso = NULL_INT
  THEN "not_null"
  ELSE IF new.semestre_ingresso \notin {1, 2} THEN "check"
  ELSE IF \E m \in others : m.aluno_id = new.aluno_id /\ m.curso_id = new.curso_id
       THEN "unique"
  ELSE IF ~ (\E a \in alunos : a.id = new.aluno_id) \/ ~ (\E c \in cursos : c.id = new.curso_id)
       THEN "fk"
       ELSE "none"

InsertMatricula(caller, vals) ==
  \E NOW \in 0..now :
  LET new == ApplyPatch([id |-> seq.matriculas + 1, aluno_id |-> NULL_UUID,
                         curso_id |-> NULL_UUID, ano_ingresso |-> NULL_INT,
                         semestre_ingresso |-> NULL_INT, data_matricula |-> NOW], vals)
      err == IF new.aluno_id = EMPTY_UUID \/ new.curso_id = EMPTY_UUID THEN "invalid_uuid"
             ELSE IF ~ PolicyAllows("matriculas", "INSERT", caller, new) THEN "rls"
             ELSE MatriculaConstraintError(new, matriculas)
  IN /\ err = "none" => seq.matriculas < MaxMatriculas
     /\ IF err = "none"
        THEN /\ matriculas' = matriculas \cup {new}
             /\ seq' = [seq EXCEPT !.matriculas = @ + 1]
        ELSE UNCHANGED <<matriculas, seq>>
     /\ last' = Resp("insert", "matriculas", caller,
                     IF err = "none" THEN new.id ELSE NULL_UUID, vals, err,
                     IF err = "none" THEN 1 ELSE 0, {})
     /\ UNCHANGED <<auth_users, profiles, user_roles, cursos, alunos, now>>

UpdateMatricula(caller, id, patch) ==
  LET target == {m \in matriculas : m.id = id /\ CanTarget("matriculas", "UPDATE", caller, m)}
  IN IF target = {}
     THEN /\ last' = Resp("update", "matriculas", caller, id, patch, "none", 0, {})
          /\ UNCHANGED dbVars
     ELSE LET old == RowById(matriculas, id)
              new == ApplyPatch(old, patch)
              err == IF ~ CanTarget("matriculas", "UPDATE", caller, new) THEN "rls"
                     ELSE MatriculaConstraintError(new, matriculas \ {old})
          IN /\ matriculas' = IF err = "none" THEN (matriculas \ {old}) \cup {new}
                              ELSE matriculas
             /\ last' = Resp("update", "matriculas", caller, id, patch, err,
                             IF err = "none" THEN 1 ELSE 0, {})
             /\ UNCHANGED <<auth_users, profiles, user_roles, cursos, alunos, seq, now>>

DeleteMatricula(caller, id) ==
  LET target == {m \in matriculas : m.id = id /\ CanTarget("matriculas", "DELETE", caller, m)}
  IN /\ matriculas' = matriculas \ target
     /\ last' = Resp("delete", "matriculas", caller, id, NoRow, "none",
                     Cardinality(target), {})
     /\ UNCHANGED <<auth_users, profiles, user_roles, cursos, alunos, seq, now>>

----------------------------------------------------------------------------
(* Text comparison, for ORDER BY on a text column: character by character  *)
(* in code-point order.                                                    *)

Alphabet == " -.0123456789@ABCDEFGHIJKLMNOPQRSTUVWXYZabcdefghijklmnopqrstuvwxyz"

CharAt(s, i) == SubSeq(s, i, i)

CharRank(c) == CHOOSE i \in 1..Len(Alphabet) : CharAt(Alphabet, i) = c

RECURSIVE TextLessFrom(_, _, _)
TextLessFrom(a, b, i) ==
  IF i > Len(a) THEN i <= Len(b)
  ELSE IF i > Len(b) THEN FALSE
  ELSE IF CharAt(a, i) = CharAt(b, i) THEN TextLessFrom(a, b, i + 1)
  ELSE CharRank(CharAt(a, i)) < CharRank(CharAt(b, i))

TextLess(a, b) == TextLessFrom(a, b, 1)

(* The sequences that hold each row of rows once, in an order the key      *)
(* column col admits ascending (rows with equal keys come in any order).   *)
OrderedBy(rows, col) ==
  {sq \in [1..Cardinality(rows) -> rows] :
     /\ \A i, j \in DOMAIN sq : i # j => sq[i] # sq[j]
     /\ \A i, j \in DOMAIN sq : i < j => ~ TextLess(sq[j][col], sq[i][col])}

----------------------------------------------------------------------------
(* MatriculasManager                                                       *)

(* new Date().getFullYear(): the year of the clock when the form state is *)
(* built; EpochYear is the year at time 0 and the clock advances by Tick.  *)
EpochYear == 2025

getFullYear(time) == EpochYear + time

CurrentYear == getFullYear(now)

(* The store's error messages, as word lists; includes() looks for a word. *)
ErrorMessage(kind) ==
  CASE kind = "unique" -> <<"duplicate", "key", "value", "violates", "unique", "constraint">>
    [] kind = "rls" -> <<"new", "row", "violates", "row-level", "security", "policy">>
    [] kind = "not_null" -> <<"null", "value", "violates", "not-null", "constraint">>
    [] kind = "check" -> <<"new", "row", "violates", "check", "constraint">>
    [] kind = "fk" -> <<"insert", "or", "update", "violates", "foreign", "key", "constraint">>
    [] kind = "invalid_uuid" -> <<"invalid", "input", "syntax", "for", "type", "uuid">>
    [] kind = "invalid_date" -> <<"invalid", "input", "syntax", "for", "type", "date">>

includes(message, word) == \E i \in DOMAIN message : message[i] = word

NoToast == [title |-> "", description |-> <<>>, variant |-> "default"]

(* The entries of the form's two option lists: the columns fetchAlunos and *)
(* fetchCursos select.                                                     *)
AsAlunoOption(row) ==
  [id |-> row.id, nome_completo |-> row.nome_completo, matricula |-> row.matricula]

AsCursoOption(row) == [id |-> row.id, nome |-> row.nome, codigo_curso |-> row.codigo_curso]

MatriculasFormInit ==
  [aluno_id |-> EMPTY_UUID, curso_id |-> EMPTY_UUID, ano_ingresso |-> CurrentYear,
   semestre_ingresso |-> 1]

MatriculasInit ==
  [userRole |-> NULL_TEXT, isDialogOpen |-> FALSE, formData |-> MatriculasFormInit, matriculas |-> <<>>,
   alunos |-> <<>>, cursos |-> <<>>, toast |-> NoToast, inflight |-> {}]

(* A request of a handler that awaits its answer.  It carries the session  *)
(* the store's client had when it was sent, which is the identity the      *)
(* store executes it with; mounted tells whether the component instance    *)
(* the handler belongs to is still mounted.                                *)
Request(session, kind, vals) ==
  [kind |-> kind, phase |-> "sent", session |-> session, vals |-> vals,
   mounted |-> TRUE, error |-> "none", data |-> <<>>]

Answer(req, error, data) ==
  [req EXCEPT !.phase = "answered", !.error = error, !.data = data]

(* A request the resumed handler of req sends belongs to the same          *)
(* component instance.                                                     *)
FollowUp(req, sent) == [sent EXCEPT !.mounted = req.mounted]

(* What the resumed handler of req makes of the module state m, next being *)
(* the state its calls ask for: the state setters of an instance that is   *)
(* no longer mounted change nothing, while its toast is shown and its      *)
(* requests are sent all the same.                                         *)
Settle(req, m, next) ==
  IF req.mounted THEN next
  ELSE [m EXCEPT !.toast = next.toast, !.inflight = next.inflight]

Matriculas_resetForm(mm) == [mm EXCEPT !.formData = MatriculasFormInit]

(* Dialog onOpenChange: setIsDialogOpen(open); if (!open) resetForm().     *)
Matriculas_onOpenChange(open) ==
  /\ client.mm.userRole = "admin"
  /\ client' = [client EXCEPT !.mm =
        IF open THEN [@ EXCEPT !.isDialogOpen = TRUE]
        ELSE Matriculas_resetForm([@ EXCEPT !.isDialogOpen = FALSE])]
  /\ UNCHANGED <<dbVars, last>>

(* The form's onValueChange / onChange: setFormData({...formData, f: v}).   *)
Matriculas_setFormData(patch) ==
  /\ client.mm.userRole = "admin"
  /\ client.mm.isDialogOpen
  /\ client' = [client EXCEPT !.mm.formData = ApplyPatch(@, patch)]
  /\ UNCHANGED <<dbVars, last>>

(* handleSubmit up to its await: the insert of formData is sent.           *)
Matriculas_handleSubmit ==
  LET req == Request(client.session, "insert", client.mm.formData)
  IN /\ client.mm.userRole = "admin"
     /\ client.mm.isDialogOpen
     /\ req \notin client.mm.inflight
     /\ Cardinality(client.mm.inflight) < MaxInflight
     /\ client' = [client EXCEPT !.mm.inflight = @ \cup {req}]
     /\ UNCHANGED <<dbVars, last>>

(* The store executes the insert with the identity the request carries.    *)
Matriculas_insertExec(req) ==
  /\ req \in client.mm.inflight /\ req.kind = "insert" /\ req.phase = "sent"
  /\ InsertMatricula(req.session, req.vals)
  /\ Answer(req, last'.error, <<>>) \notin client.mm.inflight
  /\ client' = [client EXCEPT !.mm.inflight =
                  (@ \ {req}) \cup {Answer(req, last'.error, <<>>)}]

Matriculas_toastDescription_message_only(error) == ErrorMessage(error)

Matriculas_toastDescription(error) ==
  IF includes(ErrorMessage(error), "duplicate")
  THEN <<"Aluno", "já", "está", "matriculado", "neste", "curso">>
  ELSE ErrorMessage(error)

(* handleSubmit after its await.                                           *)
Matriculas_handleSubmitResume(req) ==
  /\ req \in client.mm.inflight /\ req.kind = "insert" /\ req.phase = "answered"
  /\ IF req.error = "none"
     THEN /\ FollowUp(req, Request(client.session, "fetchMatriculas", NoRow)) \notin client.mm.inflight
          /\ client' = [client EXCEPT !.mm = Settle(req, @,
               [Matriculas_resetForm(@) EXCEPT
                  !.toast = [title |-> "Matrícula realizada com sucesso!",
                             description |-> <<>>, variant |-> "default"],
                  !.isDialogOpen = FALSE,
                  !.inflight = (@ \ {req})
                     \cup {FollowUp(req, Request(client.session, "fetchMatriculas", NoRow))}])]
     ELSE client' = [client EXCEPT !.mm = Settle(req, @,
               [@ EXCEPT
                  !.toast = [title |-> "Erro ao matricular",
                             description |-> Matriculas_toastDescription(req.error),
                             variant |-> "destructive"],
                  !.inflight = @ \ {req}])]
  /\ UNCHANGED <<dbVars, last>>

(* .order('ano_ingresso', {ascending: false}): any order of the rows that  *)
(* is descending in ano_ingresso.                                          *)
OrderedByAnoDesc(rows) ==
  {sq \in [1..Cardinality(rows) -> {r.id : r \in rows}] :
     /\ \A i, j \in DOMAIN sq : i # j => sq[i] # sq[j]
     /\ \A i, j \in DOMAIN sq :
          i < j => RowById(rows, sq[i]).ano_ingresso >= RowById(rows, sq[j]).ano_ingresso}

(* The store executes fetchMatriculas' select.                             *)
Matriculas_fetchExec(req) ==
  /\ req \in client.mm.inflight /\ req.kind = "fetchMatriculas" /\ req.phase = "sent"
  /\ Select(req.session, "matriculas")
  /\ \E data \in OrderedByAnoDesc(Visible("matriculas", req.session)) :
        /\ Answer(req, "none", data) \notin client.mm.inflight
        /\ client' = [client EXCEPT !.mm.inflight =
                        (@ \ {req}) \cup {Answer(req, "none", data)}]

(* fetchMatriculas after its await: if (!error && data) setMatriculas.     *)
Matriculas_fetchMatriculasResume(req) ==
  /\ req \in client.mm.inflight /\ req.kind = "fetchMatriculas" /\ req.phase = "answered"
  /\ client' = [client EXCEPT !.mm = Settle(req, @,
        [@ EXCEPT !.matriculas = IF req.error = "none" THEN req.data ELSE @,
                  !.inflight = @ \ {req}])]
  /\ UNCHANGED <<dbVars, last>>

(* The store executes fetchAlunos' select('id, nome_completo, matricula')  *)
(* .eq('status', 'ATIVO').order('nome_completo').                          *)
Matriculas_fetchAlunosExec(req) ==
  LET ativos == {r \in Visible("alunos", req.session) : r.status = "ATIVO"}
  IN /\ req \in client.mm.inflight /\ req.kind = "fetchAlunos" /\ req.phase = "sent"
     /\ last' = Resp("select", "alunos", req.session, NULL_UUID, NoRow, "none",
                     Cardinality(ativos), {r.id : r \in ativos})
     /\ UNCHANGED dbVars
     /\ \E rows \in OrderedBy(ativos, "nome_completo") :
           LET data == [k \in DOMAIN rows |-> AsAlunoOption(rows[k])]
           IN /\ Answer(req, "none", data) \notin client.mm.inflight
              /\ client' = [client EXCEPT !.mm.inflight =
                              (@ \ {req}) \cup {Answer(req, "none", data)}]

(* fetchAlunos after its await: if (data) setAlunos(data).                 *)
Matriculas_fetchAlunosResume(req) ==
  /\ req \in client.mm.inflight /\ req.kind = "fetchAlunos" /\ req.phase = "answered"
  /\ client' = [client EXCEPT !.mm = Settle(req, @,
        [@ EXCEPT !.alunos = IF req.error = "none" THEN req.data ELSE @,
                  !.inflight = @ \ {req}])]
  /\ UNCHANGED <<dbVars, last>>

(* The store executes fetchCursos' select('id, nome, codigo_curso')        *)
(* .order('nome').                                                         *)
Matriculas_fetchCursosExec(req) ==
  /\ req \in client.mm.inflight /\ req.kind = "fetchCursos" /\ req.phase = "sent"
  /\ Select(req.session, "cursos")
  /\ \E rows \in OrderedBy(Visible("cursos", req.session), "nome") :
        LET data == [k \in DOMAIN rows |-> AsCursoOption(rows[k])]
        IN /\ Answer(req, "none", data) \notin client.mm.inflight
           /\ client' = [client EXCEPT !.mm.inflight =
                           (@ \ {req}) \cup {Answer(req, "none", data)}]

(* fetchCursos after its await: if (data) setCursos(data).                 *)
Matriculas_fetchCursosResume(req) ==
  /\ req \in client.mm.inflight /\ req.kind = "fetchCursos" /\ req.phase = "answered"
  /\ client' = [client EXCEPT !.mm = Settle(req, @,
        [@ EXCEPT !.cursos = IF req.error = "none" THEN req.data ELSE @,
                  !.inflight = @ \ {req}])]
  /\ UNCHANGED <<dbVars, last>>

(* handleDelete up to its await, the confirm() answered yes.               *)
Matriculas_handleDelete(k) ==
  LET req == Request(client.session, "delete", [id |-> client.mm.matriculas[k]])
  IN /\ client.mm.userRole = "admin"
     /\ k \in DOMAIN client.mm.matriculas
     /\ req \notin client.mm.inflight
     /\ Cardinality({r \in client.mm.inflight : r.kind \in {"insert", "delete"}}) < MaxInflight
     /\ client' = [client EXCEPT !.mm.inflight = @ \cup {req}]
     /\ UNCHANGED <<dbVars, last>>

(* The store executes the delete with the identity the request carries.    *)
Matriculas_deleteExec(req) ==
  /\ req \in client.mm.inflight /\ req.kind = "delete" /\ req.phase = "sent"
  /\ DeleteMatricula(req.session, req.vals.id)
  /\ Answer(req, last'.error, <<>>) \notin client.mm.inflight
  /\ client' = [client EXCEPT !.mm.inflight =
                  (@ \ {req}) \cup {Answer(req, last'.error, <<>>)}]

(* handleDelete after its await: if (!error) { toast; fetchMatriculas() }, *)
(* and nothing otherwise.                                                  *)
Matriculas_handleDeleteResume(req) ==
  /\ req \in client.mm.inflight /\ req.kind = "delete" /\ req.phase = "answered"
  /\ IF req.error = "none"
     THEN /\ FollowUp(req, Request(client.session, "fetchMatriculas", NoRow)) \notin client.mm.inflight
          /\ client' = [client EXCEPT !.mm = Settle(req, @,
               [@ EXCEPT
                  !.toast = [title |-> "Matrícula excluída com sucesso!",
                             description |-> <<>>, variant |-> "default"],
                  !.inflight = (@ \ {req})
                     \cup {FollowUp(req, Request(client.session, "fetchMatriculas", NoRow))}])]
     ELSE client' = [client EXCEPT !.mm.inflight = @ \ {req}]
  /\ UNCHANGED <<dbVars, last>>

----------------------------------------------------------------------------
(* CursosManager                                                           *)

(* The module can be open in more than one browser at a time; each         *)
(* instance has its own session and component state.                       *)
CursoInstances == {1, 2}

(* cursoSchema.parse(formData): the messages of the issues, in the order   *)
(* of the schema's keys; empty when the form data is valid.                *)
cursoSchema(formData) ==
  (IF Len(formData.nome) < 3 THEN <<"Nome deve ter no mínimo 3 caracteres">> ELSE <<>>)
  \o (IF Len(formData.codigo_curso) < 2
      THEN <<"Código deve ter no mínimo 2 caracteres">> ELSE <<>>)
  \o (IF formData.duracao_semestres < 1
      THEN <<"Duração deve ser no mínimo 1 semestre">> ELSE <<>>)

(* type Curso: the fields of a fetched row the module uses.                 *)
AsCurso(row) ==
  [id |-> row.id, nome |-> row.nome, codigo_curso |-> row.codigo_curso,
   duracao_semestres |-> row.duracao_semestres]

CursosFormInit == [nome |-> "", codigo_curso |-> "", duracao_semestres |-> 8]

CursosInit ==
  [session |-> NULL_UUID, userRole |-> NULL_TEXT, cursos |-> <<>>,
   isDialogOpen |-> FALSE, editingCurso |-> NoRow, formData |-> CursosFormInit,
   toast |-> NoToast, inflight |-> {}]

(* A request of a module on one row: the update or delete of row id, or    *)
(* (id NULL_UUID) an insert or a fetch; origin tells which handler sent a  *)
(* fetch.                                                                  *)
RequestOn(session, kind, id, vals, origin) ==
  [kind |-> kind, phase |-> "sent", session |-> session, id |-> id, vals |-> vals,
   origin |-> origin, mounted |-> TRUE, error |-> "none", data |-> <<>>]

Mutations(inflight) == {req \in inflight : req.kind \in {"insert", "update", "delete"}}

Cursos_resetForm(cm) == [cm EXCEPT !.formData = CursosFormInit, !.editingCurso = NoRow]

(* The dialog and the row buttons are rendered when userRole === 'admin'.  *)
Cursos_onOpenChange(i, open) ==
  /\ client.cm[i].userRole = "admin"
  /\ client' = [client EXCEPT !.cm[i] =
        IF open THEN [@ EXCEPT !.isDialogOpen = TRUE]
        ELSE Cursos_resetForm([@ EXCEPT !.isDialogOpen = FALSE])]
  /\ UNCHANGED <<dbVars, last>>

Cursos_setFormData(i, patch) ==
  /\ client.cm[i].userRole = "admin"
  /\ client.cm[i].isDialogOpen
  /\ client' = [client EXCEPT !.cm[i].formData = ApplyPatch(@, patch)]
  /\ UNCHANGED <<dbVars, last>>

Cursos_openEditDialog(i, k) ==
  /\ client.cm[i].userRole = "admin"
  /\ k \in DOMAIN client.cm[i].cursos
  /\ LET curso == client.cm[i].cursos[k]
     IN client' = [client EXCEPT !.cm[i] =
          [@ EXCEPT !.editingCurso = curso,
                    !.formData = [nome |-> curso.nome,
                                  codigo_curso |-> curso.codigo_curso,
                                  duracao_semestres |-> curso.duracao_semestres],
                    !.isDialogOpen = TRUE]]
  /\ UNCHANGED <<dbVars, last>>

(* handleSubmit up to its await: cursoSchema.parse throws before anything  *)
(* is sent; otherwise the update of the edited row, or the insert, is      *)
(* sent.                                                                   *)
Cursos_handleSubmit_dialog_state_only(i) ==
  LET cm == client.cm[i]
      issues == cursoSchema(cm.formData)
      req == IF cm.editingCurso # NoRow
             THEN RequestOn(client.cm[i].session, "update", cm.editingCurso.id, cm.formData, "submit")
             ELSE RequestOn(client.cm[i].session, "insert", NULL_UUID, cm.formData, "submit")
  IN /\ cm.isDialogOpen
     /\ IF issues # <<>>
        THEN client' = [client EXCEPT !.cm[i].toast =
                          [title |-> "Erro de validação",
                           description |-> <<issues[1]>>,
                           variant |-> "destructive"]]
        ELSE /\ req \notin cm.inflight
             /\ Cardinality(Mutations(cm.inflight)) < MaxInflight
             /\ client' = [client EXCEPT !.cm[i].inflight = @ \cup {req}]
     /\ UNCHANGED <<dbVars, last>>

Cursos_handleSubmit(i) ==
  LET cm == client.cm[i]
      issues == cursoSchema(cm.formData)
      req == IF cm.editingCurso # NoRow
             THEN RequestOn(client.cm[i].session, "update", cm.editingCurso.id, cm.formData, "submit")
             ELSE RequestOn(client.cm[i].session, "insert", NULL_UUID, cm.formData, "submit")
  IN /\ cm.userRole = "admin"
     /\ cm.isDialogOpen
     /\ IF issues # <<>>
        THEN client' = [client EXCEPT !.cm[i].toast =
                          [title |-> "Erro de validação",
                           description |-> <<issues[1]>>,
                           variant |-> "destructive"]]
        ELSE /\ req \notin cm.inflight
             /\ Cardinality(Mutations(cm.inflight)) < MaxInflight
             /\ client' = [client EXCEPT !.cm[i].inflight = @ \cup {req}]
     /\ UNCHANGED <<dbVars, last>>

(* handleDelete up to its await, the confirm() answered yes.               *)
Cursos_handleDelete(i, k) ==
  LET cm == client.cm[i]
  IN /\ cm.userRole = "admin"
     /\ k \in DOMAIN cm.cursos
     /\ RequestOn(client.cm[i].session, "delete", cm.cursos[k].id, NoRow, "delete") \notin cm.inflight
     /\ Cardinality(Mutations(cm.inflight)) < MaxInflight
     /\ client' = [client EXCEPT !.cm[i].inflight =
                     @ \cup {RequestOn(client.cm[i].session, "delete", cm.cursos[k].id, NoRow, "delete")}]
     /\ UNCHANGED <<dbVars, last>>

(* The store executes the module's insert, update or delete with the       *)
(* identity the request carries.                                          *)
Cursos_mutationExec(i, req) ==
  /\ req \in client.cm[i].inflight /\ req.phase = "sent"
  /\ req.kind \in {"insert", "update", "delete"}
  /\ CASE req.kind = "insert" -> InsertCurso(req.session, req.vals)
       [] req.kind = "update" -> UpdateCurso(req.session, req.id, req.vals)
       [] req.kind = "delete" -> DeleteCurso(req.session, req.id)
  /\ Answer(req, last'.error, <<>>) \notin client.cm[i].inflight
  /\ client' = [client EXCEPT !.cm[i].inflight =
                  (@ \ {req}) \cup {Answer(req, last'.error, <<>>)}]

(* error instanceof Error ? error.message : 'Erro desconhecido': whether   *)
(* the error object the store's client library returns is an Error is the  *)
(* library's choice.                                                       *)
Cursos_errorDescriptions(error) == {ErrorMessage(error), <<"Erro desconhecido">>}

(* handleSubmit after its await.                                           *)
Cursos_handleSubmitResume_reset_on_error(i, req) ==
  /\ req \in client.cm[i].inflight /\ req.phase = "answered"
  /\ req.kind \in {"insert", "update"}
  /\ IF req.error = "none"
     THEN /\ FollowUp(req, RequestOn(client.cm[i].session, "fetchCursos", NULL_UUID, NoRow, "submit")) \notin client.cm[i].inflight
          /\ client' = [client EXCEPT !.cm[i] = Settle(req, @,
               [Cursos_resetForm(@) EXCEPT
                  !.toast = [title |-> IF req.kind = "update"
                                       THEN "Curso atualizado com sucesso!"
                                       ELSE "Curso cadastrado com sucesso!",
                             description |-> <<>>, variant |-> "default"],
                  !.isDialogOpen = FALSE,
                  !.inflight = (@ \ {req})
                                 \cup {FollowUp(req, RequestOn(client.cm[i].session, "fetchCursos", NULL_UUID, NoRow, "submit"))}])]
     ELSE \E description \in Cursos_errorDescriptions(req.error) :
            client' = [client EXCEPT !.cm[i] = Settle(req, @,
               [Cursos_resetForm(@) EXCEPT
                  !.toast = [title |-> "Erro ao salvar curso",
                             description |-> description,
                             variant |-> "destructive"],
                  !.inflight = @ \ {req}])]
  /\ UNCHANGED <<dbVars, last>>

Cursos_handleSubmitResume(i, req) ==
  /\ req \in client.cm[i].inflight /\ req.phase = "answered"
  /\ req.kind \in {"insert", "update"}
  /\ IF req.error = "none"
     THEN /\ FollowUp(req, RequestOn(client.cm[i].session, "fetchCursos", NULL_UUID, NoRow, "submit")) \notin client.cm[i].inflight
          /\ client' = [client EXCEPT !.cm[i] = Settle(req, @,
               [Cursos_resetForm(@) EXCEPT
                  !.toast = [title |-> IF req.kind = "update"
                                       THEN "Curso atualizado com sucesso!"
                                       ELSE "Curso cadastrado com sucesso!",
                             description |-> <<>>, variant |-> "default"],
                  !.isDialogOpen = FALSE,
                  !.inflight = (@ \ {req})
                                 \cup {FollowUp(req, RequestOn(client.cm[i].session, "fetchCursos", NULL_UUID, NoRow, "submit"))}])]
     ELSE \E description \in Cursos_errorDescriptions(req.error) :
            client' = [client EXCEPT !.cm[i] = Settle(req, @,
               [@ EXCEPT
                  !.toast = [title |-> "Erro ao salvar curso",
                             description |-> description,
                             variant |-> "destructive"],
                  !.inflight = @ \ {req}])]
  /\ UNCHANGED <<dbVars, last>>

(* handleDelete after its await.                                           *)
Cursos_handleDeleteResume(i, req) ==
  /\ req \in client.cm[i].inflight /\ req.phase = "answered" /\ req.kind = "delete"
  /\ IF req.error = "none"
     THEN /\ FollowUp(req, RequestOn(client.cm[i].session, "fetchCursos", NULL_UUID, NoRow, "delete")) \notin client.cm[i].inflight
          /\ client' = [client EXCEPT !.cm[i] = Settle(req, @,
               [@ EXCEPT
                  !.toast = [title |-> "Curso excluído com sucesso!",
                             description |-> <<>>, variant |-> "default"],
                  !.inflight = (@ \ {req})
                                 \cup {FollowUp(req, RequestOn(client.cm[i].session, "fetchCursos", NULL_UUID, NoRow, "delete"))}])]
     ELSE client' = [client EXCEPT !.cm[i] = Settle(req, @,
               [@ EXCEPT
                  !.toast = [title |-> "Erro ao excluir curso",
                             description |-> <<"Pode haver alunos matriculados neste curso">>,
                             variant |-> "destructive"],
                  !.inflight = @ \ {req}])]
  /\ UNCHANGED <<dbVars, last>>

(* The store executes fetchCursos' select('*').order('nome').              *)
Cursos_fetchExec(i, req) ==
  /\ req \in client.cm[i].inflight /\ req.kind = "fetchCursos" /\ req.phase = "sent"
  /\ Select(req.session, "cursos")
  /\ \E rows \in OrderedBy(Visible("cursos", req.session), "nome") :
        LET data == [k \in DOMAIN rows |-> AsCurso(rows[k])]
        IN /\ Answer(req, "none", data) \notin client.cm[i].inflight
           /\ client' = [client EXCEPT !.cm[i].inflight =
                           (@ \ {req}) \cup {Answer(req, "none", data)}]

(* fetchCursos after its await: if (!error && data) setCursos(data).       *)
Cursos_fetchCursosResume(i, req) ==
  /\ req \in client.cm[i].inflight /\ req.kind = "fetchCursos" /\ req.phase = "answered"
  /\ client' = [client EXCEPT !.cm[i] = Settle(req, @,
        [@ EXCEPT !.cursos = IF req.error = "none" THEN req.data ELSE @,
                  !.inflight = @ \ {req}])]
  /\ UNCHANGED <<dbVars, last>>

----------------------------------------------------------------------------
(* AlunosManager                                                           *)

Digits == {CharAt("0123456789", i) : i \in 1..10}

Letters ==
  {CharAt("ABCDEFGHIJKLMNOPQRSTUVWXYZabcdefghijklmnopqrstuvwxyz", i) : i \in 1..52}

AllDigits(s, from, to) == \A i \in from..to : CharAt(s, i) \in Digits

(* /^\d{4}-[12]-\d{4}$/                                                    *)
MatchesMatricula(s) ==
  /\ Len(s) = 11
  /\ AllDigits(s, 1, 4)
  /\ CharAt(s, 5) = "-"
  /\ CharAt(s, 6) \in {"1", "2"}
  /\ CharAt(s, 7) = "-"
  /\ AllDigits(s, 8, 11)

(* /^\d{3}\.\d{3}\.\d{3}-\d{2}$/                                           *)
MatchesCpf(s) ==
  /\ Len(s) = 14
  /\ AllDigits(s, 1, 3) /\ CharAt(s, 4) = "."
  /\ AllDigits(s, 5, 7) /\ CharAt(s, 8) = "."
  /\ AllDigits(s, 9, 11) /\ CharAt(s, 12) = "-"
  /\ AllDigits(s, 13, 14)

(* z.string().email(): a local part of letters, digits and _ ' + - . that  *)
(* neither starts nor ends with a dot, an @, and a domain of dot-separated *)
(* labels ending in a label of two or more letters; no two dots in a row.  *)
MatchesEmail(s) ==
  \E k \in 1..Len(s) :
     LET local == SubSeq(s, 1, k - 1)
         domain == SubSeq(s, k + 1, Len(s))
     IN /\ CharAt(s, k) = "@"
        /\ Len(local) >= 1
        /\ CharAt(local, 1) # "."
        /\ \A j \in 1..(Len(s) - 1) : ~ (CharAt(s, j) = "." /\ CharAt(s, j + 1) = ".")
        /\ \A j \in 1..Len(local) :
              CharAt(local, j) \in Letters \cup Digits \cup {"_", "'", "+", "-", "."}
        /\ CharAt(local, Len(local)) \in Letters \cup Digits \cup {"_", "+", "-"}
        /\ \E d \in 2..(Len(domain) - 2) :
              /\ CharAt(domain, d) = "."
              /\ \A j \in (d + 1)..Len(domain) : CharAt(domain, j) \in Letters
              /\ CharAt(domain, 1) \in Letters \cup Digits
              /\ \A j \in 1..d : CharAt(domain, j) \in Letters \cup Digits \cup {"-", "."}
              /\ \A j \in 1..(d - 1) :
                    CharAt(domain, j) = "." => CharAt(domain, j + 1) \in Letters \cup Digits

(* alunoSchema.parse(formData): the messages of the issues, in the order   *)
(* of the schema's keys.                                                   *)
alunoSchema(formData) ==
  (IF Len(formData.nome_completo) < 3
   THEN <<"Nome deve ter no mínimo 3 caracteres">> ELSE <<>>)
  \o (IF ~ MatchesMatricula(formData.matricula)
      THEN <<"Formato: AAAA-S-NNNN (ex: 2025-1-1234)">> ELSE <<>>)
  \o (IF ~ MatchesCpf(formData.cpf) THEN <<"Formato: XXX.XXX.XXX-XX">> ELSE <<>>)
  \o (IF ~ MatchesEmail(formData.email) THEN <<"Email inválido">> ELSE <<>>)
  \o (IF formData.status \notin status_matricula THEN <<"Invalid enum value">> ELSE <<>>)

(* type Aluno: the fields of a fetched row the module uses.                 *)
AsAluno(row) ==
  [id |-> row.id, nome_completo |-> row.nome_completo, matricula |-> row.matricula,
   cpf |-> row.cpf, email |-> row.email, data_nascimento |-> row.data_nascimento,
   telefone |-> row.telefone, status |-> row.status]

AlunosFormInit ==
  [nome_completo |-> "", matricula |-> "", cpf |-> "", email |-> "",
   data_nascimento |-> "", telefone |-> "", status |-> "ATIVO"]

AlunosInit ==
  [userRole |-> NULL_TEXT, alunos |-> <<>>, isDialogOpen |-> FALSE,
   editingAluno |-> NoRow, formData |-> AlunosFormInit, toast |-> NoToast,
   inflight |-> {}]

Alunos_resetForm(am) == [am EXCEPT !.formData = AlunosFormInit, !.editingAluno = NoRow]

Alunos_onOpenChange(open) ==
  /\ client.am.userRole = "admin"
  /\ client' = [client EXCEPT !.am =
        IF open THEN [@ EXCEPT !.isDialogOpen = TRUE]
        ELSE Alunos_resetForm([@ EXCEPT !.isDialogOpen = FALSE])]
  /\ UNCHANGED <<dbVars, last>>

Alunos_setFormData(patch) ==
  /\ client.am.userRole = "admin"
  /\ client.am.isDialogOpen
  /\ client' = [client EXCEPT !.am.formData = ApplyPatch(@, patch)]
  /\ UNCHANGED <<dbVars, last>>

Alunos_openEditDialog(k) ==
  /\ client.am.userRole = "admin"
  /\ k \in DOMAIN client.am.alunos
  /\ LET aluno == client.am.alunos[k]
     IN client' = [client EXCEPT !.am =
          [@ EXCEPT !.editingAluno = aluno,
                    !.formData = [nome_completo |-> aluno.nome_completo,
                                  matricula |-> aluno.matricula,
                                  cpf |-> aluno.cpf,
                                  email |-> aluno.email,
                                  data_nascimento |-> aluno.data_nascimento,
                                  telefone |-> IF aluno.telefone = NULL_TEXT
                                               THEN "" ELSE aluno.telefone,
                                  status |-> aluno.status],
                    !.isDialogOpen = TRUE]]
  /\ UNCHANGED <<dbVars, last>>

(* handleSubmit up to its await.                                           *)
Alunos_handleSubmit ==
  LET am == client.am
      issues == alunoSchema(am.formData)
      req == IF am.editingAluno # NoRow
             THEN RequestOn(client.session, "update", am.editingAluno.id, am.formData, "submit")
             ELSE RequestOn(client.session, "insert", NULL_UUID, am.formData, "submit")
  IN /\ am.userRole = "admin"
     /\ am.isDialogOpen
     /\ IF issues # <<>>
        THEN client' = [client EXCEPT !.am.toast =
                          [title |-> "Erro de validação",
                           description |-> <<issues[1]>>,
                           variant |-> "destructive"]]
        ELSE /\ req \notin am.inflight
             /\ Cardinality(Mutations(am.inflight)) < MaxInflight
             /\ client' = [client EXCEPT !.am.inflight = @ \cup {req}]
     /\ UNCHANGED <<dbVars, last>>

(* handleDelete up to its await, the confirm() answered yes: the update of *)
(* the row's status to INATIVO is sent.                                    *)
Alunos_handleDelete_trancado(k) ==
  LET am == client.am
      req == RequestOn(client.session, "delete", am.alunos[k].id, [status |-> "TRANCADO"], "delete")
  IN /\ am.userRole = "admin"
     /\ k \in DOMAIN am.alunos
     /\ req \notin am.inflight
     /\ Cardinality(Mutations(am.inflight)) < MaxInflight
     /\ client' = [client EXCEPT !.am.inflight = @ \cup {req}]
     /\ UNCHANGED <<dbVars, last>>

Alunos_handleDelete(k) ==
  LET am == client.am
      req == RequestOn(client.session, "delete", am.alunos[k].id, [status |-> "INATIVO"], "delete")
  IN /\ am.userRole = "admin"
     /\ k \in DOMAIN am.alunos
     /\ req \notin am.inflight
     /\ Cardinality(Mutations(am.inflight)) < MaxInflight
     /\ client' = [client EXCEPT !.am.inflight = @ \cup {req}]
     /\ UNCHANGED <<dbVars, last>>

(* The store executes the module's insert or update; the request of        *)
(* handleDelete is an update as well.                                      *)
Alunos_mutationExec(req) ==
  /\ req \in client.am.inflight /\ req.phase = "sent"
  /\ req.kind \in {"insert", "update", "delete"}
  /\ CASE req.kind = "insert" -> InsertAluno(req.session, req.vals)
       [] req.kind \in {"update", "delete"} -> UpdateAluno(req.session, req.id, req.vals)
  /\ Answer(req, last'.error, <<>>) \notin client.am.inflight
  /\ client' = [client EXCEPT !.am.inflight =
                  (@ \ {req}) \cup {Answer(req, last'.error, <<>>)}]

(* handleSubmit after its await.                                           *)
Alunos_handleSubmitResume(req) ==
  /\ req \in client.am.inflight /\ req.phase = "answered"
  /\ req.kind \in {"insert", "update"}
  /\ IF req.error = "none"
     THEN /\ FollowUp(req, RequestOn(client.session, "fetchAlunos", NULL_UUID, NoRow, "submit")) \notin client.am.inflight
          /\ client' = [client EXCEPT !.am = Settle(req, @,
               [Alunos_resetForm(@) EXCEPT
                  !.toast = [title |-> IF req.kind = "update"
                                       THEN "Aluno atualizado com sucesso!"
                                       ELSE "Aluno cadastrado com sucesso!",
                             description |-> <<>>, variant |-> "default"],
                  !.isDialogOpen = FALSE,
                  !.inflight = (@ \ {req})
                                 \cup {FollowUp(req, RequestOn(client.session, "fetchAlunos", NULL_UUID, NoRow, "submit"))}])]
     ELSE \E description \in Cursos_errorDescriptions(req.error) :
            client' = [client EXCEPT !.am = Settle(req, @,
               [@ EXCEPT
                  !.toast = [title |-> "Erro ao salvar aluno",
                             description |-> description,
                             variant |-> "destructive"],
                  !.inflight = @ \ {req}])]
  /\ UNCHANGED <<dbVars, last>>

(* handleDelete after its await: if (!error) { toast; fetchAlunos() }, and *)
(* nothing otherwise.                                                      *)
Alunos_handleDeleteResume(req) ==
  /\ req \in client.am.inflight /\ req.phase = "answered"
  /\ req.kind = "delete"
  /\ IF req.error = "none"
     THEN /\ FollowUp(req, RequestOn(client.session, "fetchAlunos", NULL_UUID, NoRow, "delete")) \notin client.am.inflight
          /\ client' = [client EXCEPT !.am = Settle(req, @,
               [@ EXCEPT
                  !.toast = [title |-> "Aluno desativado com sucesso!",
                             description |-> <<>>, variant |-> "default"],
                  !.inflight = (@ \ {req})
                                 \cup {FollowUp(req, RequestOn(client.session, "fetchAlunos", NULL_UUID, NoRow, "delete"))}])]
     ELSE client' = [client EXCEPT !.am.inflight = @ \ {req}]
  /\ UNCHANGED <<dbVars, last>>

(* The store executes fetchAlunos' select('*').order('nome_completo').     *)
Alunos_fetchExec(req) ==
  /\ req \in client.am.inflight /\ req.kind = "fetchAlunos" /\ req.phase = "sent"
  /\ Select(req.session, "alunos")
  /\ \E rows \in OrderedBy(Visible("alunos", req.session), "nome_completo") :
        LET data == [k \in DOMAIN rows |-> AsAluno(rows[k])]
        IN /\ Answer(req, "none", data) \notin client.am.inflight
           /\ client' = [client EXCEPT !.am.inflight =
                           (@ \ {req}) \cup {Answer(req, "none", data)}]

(* fetchAlunos after its await.                                            *)
Alunos_fetchAlunosResume(req) ==
  /\ req \in client.am.inflight /\ req.kind = "fetchAlunos" /\ req.phase = "answered"
  /\ client' = [client EXCEPT !.am = Settle(req, @,
        [@ EXCEPT !.alunos = IF req.error = "none" THEN req.data ELSE @,
                  !.inflight = @ \ {req}])]
  /\ UNCHANGED <<dbVars, last>>

----------------------------------------------------------------------------
(* Auth page, Dashboard page and the auth context they read                *)

(* loginSchema.parse({email, password}): the messages of the issues, in    *)
(* the order of the schema's keys.                                         *)
loginSchema(input) ==
  (IF ~ MatchesEmail(input.email) THEN <<"Email inválido">> ELSE <<>>)
  \o (IF Len(input.password) < 6
      THEN <<"Senha deve ter no mínimo 6 caracteres">> ELSE <<>>)

(* signupSchema.parse(...): the issues of the extended object, then the    *)
(* issue of the refinement, which runs although a string check failed.     *)
signupSchema_no_refine(input) ==
  loginSchema(input)
  \o (IF Len(input.nomeCompleto) < 3
      THEN <<"Nome deve ter no mínimo 3 caracteres">> ELSE <<>>)

signupSchema(input) ==
  loginSchema(input)
  \o (IF Len(input.nomeCompleto) < 3
      THEN <<"Nome deve ter no mínimo 3 caracteres">> ELSE <<>>)
  \o (IF input.password # input.confirmPassword
      THEN <<"As senhas não coincidem">> ELSE <<>>)

(* The state hooks of the Auth component.                                  *)
AuthPageInit ==
  [isLogin |-> TRUE, email |-> "", password |-> "", confirmPassword |-> "",
   nomeCompleto |-> "", loading |-> FALSE]

NoNav == [to |-> "", by |-> ""]

(* The router's location, what the auth context supplies (user, userRole,  *)
(* loading, and a session the provider has established but the context has *)
(* not yet published), the state of the Auth component, the last toast and *)
(* navigate call of the two pages, and the provider calls in flight.       *)
ShellInit ==
  [route |-> "/auth", user |-> NULL_UUID, userRole |-> NULL_TEXT, loading |-> TRUE,
   pending |-> NULL_UUID, page |-> AuthPageInit, toast |-> NoToast, nav |-> NoNav,
   inflight |-> {}]

(* What Dashboard returns.                                                 *)
Dashboard_view(sh) ==
  IF sh.loading THEN "Carregando..."
  ELSE IF sh.user = NULL_UUID THEN "null"
  ELSE "Header, Tabs"

(* The Tabs are on the page: the router shows Dashboard and Dashboard      *)
(* returns them.                                                           *)
Dashboard_showsTabs(sh) == sh.route = "/" /\ Dashboard_view(sh) = "Header, Tabs"

(* The requests whose handlers belong to an instance that was unmounted.   *)
Orphaned(inflight) == {[req EXCEPT !.mounted = FALSE] : req \in inflight}

(* A manager after its TabsContent is unmounted: the state of its hooks is *)
(* gone; what stays is outside the component, the toast it showed and the  *)
(* requests that are still to be answered.  (Requests equal in every field *)
(* are held once.)                                                         *)
Unmounted(m, init) == [init EXCEPT !.toast = m.toast, !.inflight = Orphaned(m.inflight)]

(* A manager as it is mounted: its hooks' initial state, the userRole the  *)
(* auth context supplies, and the requests its mount effect sends.         *)
Mounted(m, init, userRole, effect) ==
  [init EXCEPT !.userRole = userRole, !.toast = m.toast, !.inflight = m.inflight \cup effect]

(* useEffect(() => { fetchAlunos() }, []), useEffect(() => { fetchCursos() *)
(* }, []) and useEffect(() => { fetchMatriculas(); fetchAlunos();          *)
(* fetchCursos() }, []) of the three managers.                             *)
Alunos_mountEffect(session) ==
  {RequestOn(session, "fetchAlunos", NULL_UUID, NoRow, "mount")}

Cursos_mountEffect(session) ==
  {RequestOn(session, "fetchCursos", NULL_UUID, NoRow, "mount")}

Matriculas_mountEffect(session) ==
  {Request(session, "fetchMatriculas", NoRow), Request(session, "fetchAlunos", NoRow),
   Request(session, "fetchCursos", NoRow)}

(* TabsContent renders the manager of the selected tab only.               *)
TabsContent_unmount(c) ==
  CASE c.tab = "alunos" -> [c EXCEPT !.am = Unmounted(@, AlunosInit)]
    [] c.tab = "cursos" ->
         [c EXCEPT !.cm[1] = Unmounted(@, [CursosInit EXCEPT !.session = c.cm[1].session])]
    [] c.tab = "matriculas" -> [c EXCEPT !.mm = Unmounted(@, MatriculasInit)]

TabsContent_mount(c, tab) ==
  CASE tab = "alunos" ->
         [c EXCEPT !.tab = tab,
                   !.am = Mounted(@, AlunosInit, c.shell.userRole,
                                  Alunos_mountEffect(c.session))]
    [] tab = "cursos" ->
         [c EXCEPT !.tab = tab,
                   !.cm[1] = Mounted(@, [CursosInit EXCEPT !.session = c.cm[1].session],
                                     c.shell.userRole, Cursos_mountEffect(c.cm[1].session))]
    [] tab = "matriculas" ->
         [c EXCEPT !.tab = tab,
                   !.mm = Mounted(@, MatriculasInit, c.shell.userRole,
                                  Matriculas_mountEffect(c.session))]

OrphanedCount(c) ==
  Cardinality({req \in c.am.inflight : ~ req.mounted})
  + Cardinality({req \in c.cm[1].inflight : ~ req.mounted})
  + Cardinality({req \in c.mm.inflight : ~ req.mounted})

(* The page after the shell has become sh: when the Tabs leave the page    *)
(* the manager shown is unmounted, and when they come onto it they start   *)
(* at defaultValue="alunos".                                               *)
Dashboard_render(c, sh) ==
  LET to == [c EXCEPT !.shell = sh]
  IN IF Dashboard_showsTabs(c.shell) /\ ~ Dashboard_showsTabs(sh)
     THEN [TabsContent_unmount(to) EXCEPT !.tab = "alunos"]
     ELSE IF ~ Dashboard_showsTabs(c.shell) /\ Dashboard_showsTabs(sh)
     THEN TabsContent_mount(to, "alunos")
     ELSE to

(* The store's client sends each statement with the provider's session.   *)
WithSession(c, u) == [c EXCEPT !.session = u, !.cm[1].session = u]

(* navigate(to): the router shows the page of the new location; leaving    *)
(* /auth unmounts the Auth component, whose state is discarded and whose   *)
(* handlers still awaiting an answer belong to no mounted component.       *)
Navigate(sh, to, by) ==
  IF sh.route = "/auth" /\ to # "/auth"
  THEN [sh EXCEPT !.route = to, !.nav = [to |-> to, by |-> by],
                  !.page = AuthPageInit,
                  !.inflight = {[req EXCEPT !.mounted = FALSE] : req \in @}]
  ELSE [sh EXCEPT !.route = to, !.nav = [to |-> to, by |-> by]]

(* Auth returns the form unless if (user) returned null before it.         *)
Auth_rendersForm(sh) == sh.route = "/auth" /\ sh.user = NULL_UUID

(* if (user) { navigate('/'); return null; } in the body of Auth.          *)
Auth_redirects(sh) == sh.route = "/auth" /\ sh.user # NULL_UUID

Auth_render ==
  /\ Auth_redirects(client.shell)
  /\ client' = Dashboard_render(client, Navigate(client.shell, "/", "Auth"))
  /\ UNCHANGED <<dbVars, last>>

Auth_setIsLogin ==
  /\ Auth_rendersForm(client.shell)
  /\ client' = [client EXCEPT !.shell.page.isLogin = ~ @]
  /\ UNCHANGED <<dbVars, last>>

Auth_setField(patch) ==
  /\ Auth_rendersForm(client.shell)
  /\ \A f \in DOMAIN patch :
        f \in {"nomeCompleto", "confirmPassword"} => ~ client.shell.page.isLogin
  /\ client' = [client EXCEPT !.shell.page = ApplyPatch(@, patch)]
  /\ UNCHANGED <<dbVars, last>>

ProviderCall(kind, page) ==
  [kind |-> kind, phase |-> "sent", email |-> page.email, password |-> page.password,
   nomeCompleto |-> IF kind = "signUp" THEN page.nomeCompleto ELSE "",
   mounted |-> TRUE, outcome |-> "none", error |-> "none"]

(* handleSubmit up to its await.  The submit button is disabled while      *)
(* loading.  A parse that throws is caught in the same run: the toast is   *)
(* shown and finally sets loading back to false before anything renders.   *)
Auth_handleSubmit ==
  LET sh == client.shell
      kind == IF sh.page.isLogin THEN "signIn" ELSE "signUp"
      issues == IF sh.page.isLogin THEN loginSchema(sh.page) ELSE signupSchema(sh.page)
  IN /\ Auth_rendersForm(sh)
     /\ ~ sh.page.loading
     /\ IF issues # <<>>
        THEN client' = [client EXCEPT !.shell =
                          [@ EXCEPT !.page.loading = FALSE,
                                    !.toast = [title |-> "Erro de validação",
                                               description |-> <<issues[1]>>,
                                               variant |-> "destructive"]]]
        ELSE client' = [client EXCEPT !.shell =
                          [@ EXCEPT !.page.loading = TRUE,
                                    !.inflight = @ \cup {ProviderCall(kind, sh.page)}]]
     /\ UNCHANGED <<dbVars, last>>

(* What the call gives back to handleSubmit: an object whose error is      *)
(* null (error "none") or carries a message, or an exception.              *)
Returned(req, error) == [req EXCEPT !.phase = "answered", !.outcome = "returned",
                                    !.error = error]

Thrown(req) == [req EXCEPT !.phase = "answered", !.outcome = "thrown"]

(* signIn: given email and password the provider returns a session         *)
(* identity or an error.  Passwords are not part of the stored state, so   *)
(* whether the password matches is the provider's choice.                  *)
Auth_signInExec(req) ==
  /\ req \in client.shell.inflight /\ req.phase = "sent" /\ req.kind = "signIn"
  /\ \/ \E a \in auth_users :
           /\ a.email = req.email
           /\ client' = [WithSession(client, a.id) EXCEPT !.shell =
                 [@ EXCEPT !.pending = a.id,
                           !.inflight = (@ \ {req}) \cup {Returned(req, "none")}]]
     \/ client' = [client EXCEPT !.shell.inflight =
                     (@ \ {req}) \cup {Returned(req, "Invalid login credentials")}]
     \/ client' = [client EXCEPT !.shell.inflight = (@ \ {req}) \cup {Thrown(req)}]
  /\ UNCHANGED <<dbVars, last>>

(* signUp: given a new email, password and display name the provider       *)
(* creates the auth subject, which runs handle_new_user, or returns an     *)
(* error.  Whether the new subject is signed in at once is the provider's  *)
(* configuration.                                                          *)
Auth_signUpExec(req) ==
  /\ req \in client.shell.inflight /\ req.phase = "sent" /\ req.kind = "signUp"
  /\ \/ /\ CreateAuthSubject(req.email, [nome_completo |-> req.nomeCompleto])
        /\ \E signedIn \in BOOLEAN :
              client' = [(IF last'.error = "none" /\ signedIn
                          THEN WithSession(client, last'.id) ELSE client) EXCEPT !.shell =
                [@ EXCEPT !.pending = IF last'.error = "none" /\ signedIn
                                      THEN last'.id ELSE @,
                          !.inflight = (@ \ {req}) \cup
                             {Returned(req, IF last'.error = "unique"
                                            THEN "Database error saving new user"
                                            ELSE last'.error)}]]
     \/ /\ client' = [client EXCEPT !.shell.inflight = (@ \ {req}) \cup {Thrown(req)}]
        /\ UNCHANGED <<dbVars, last>>

(* handleSubmit after its await.  setLoading of a component that is no     *)
(* longer mounted changes nothing.                                         *)
Auth_handleSubmitResume(req) ==
  LET sh == client.shell
      done == [sh EXCEPT !.inflight = @ \ {req},
                         !.page.loading = IF req.mounted THEN FALSE ELSE @]
      failed(title, known, hint) ==
        [done EXCEPT !.toast = [title |-> title,
                                description |-> IF req.error = known
                                                THEN <<hint>> ELSE <<req.error>>,
                                variant |-> "destructive"]]
  IN /\ req \in sh.inflight /\ req.phase = "answered"
     /\ client' = Dashboard_render(client,
          IF req.outcome = "thrown" THEN done
          ELSE IF req.kind = "signIn"
          THEN IF req.error # "none"
               THEN failed("Erro ao fazer login", "Invalid login credentials",
                           "Credenciais inválidas. Verifique seu email e senha.")
               ELSE Navigate(done, "/", "handleSubmit")
          ELSE IF req.error # "none"
               THEN failed("Erro ao criar conta", "User already registered",
                           "Este email já está cadastrado.")
               ELSE Navigate([done EXCEPT !.toast =
                                [title |-> "Conta criada com sucesso!",
                                 description |->
                                   <<"Você será redirecionado automaticamente.">>,
                                 variant |-> "default"]],
                             "/", "handleSubmit"))
     /\ UNCHANGED <<dbVars, last>>

(* useEffect(() => { if (!loading && !user) navigate('/auth') }, [user,    *)
(* loading, navigate]) of Dashboard: the effect of a render in which the   *)
(* condition holds is due.                                                 *)
Dashboard_redirects_while_loading(sh) == sh.route = "/" /\ sh.user = NULL_UUID

Dashboard_redirects(sh) == sh.route = "/" /\ ~ sh.loading /\ sh.user = NULL_UUID

(* The auth context: it finishes loading with the stored session, if any;  *)
(* it publishes a session the provider has established; signOut, the       *)
(* button of the Header, ends the session.  What the context publishes     *)
(* reaches the pages in a render, and the effect of the previous render    *)
(* is run before the next render starts.                                   *)
Context_sessionLoaded ==
  /\ client.shell.loading
  /\ \E u \in {NULL_UUID} \cup {a.id : a \in auth_users} :
        client' = Dashboard_render(WithSession(client, u),
                     [client.shell EXCEPT !.loading = FALSE, !.user = u])
  /\ UNCHANGED <<dbVars, last>>

Context_onAuthStateChange ==
  /\ client.shell.pending # NULL_UUID
  /\ ~ Dashboard_redirects(client.shell)
  /\ client' = Dashboard_render(WithSession(client, client.shell.pending),
        [client.shell EXCEPT !.user = client.shell.pending, !.pending = NULL_UUID,
                             !.loading = FALSE])
  /\ UNCHANGED <<dbVars, last>>

(* The auth context supplies the role of the signed-in user, or none, to  *)
(* the manager that reads it.                                              *)
Context_setUserRole(role) ==
  /\ client.shell.userRole # role
  /\ ~ Dashboard_redirects(client.shell)
  /\ client' =
       LET c == [client EXCEPT !.shell.userRole = role]
       IN IF ~ Dashboard_showsTabs(client.shell) THEN c
          ELSE CASE client.tab = "alunos" -> [c EXCEPT !.am.userRole = role]
                 [] client.tab = "cursos" -> [c EXCEPT !.cm[1].userRole = role]
                 [] client.tab = "matriculas" -> [c EXCEPT !.mm.userRole = role]
  /\ UNCHANGED <<dbVars, last>>

(* The effect of the Dashboard's last render, run with the values of that  *)
(* render.                                                                 *)
Dashboard_effect ==
  /\ Dashboard_redirects(client.shell)
  /\ client' = [client EXCEPT !.shell = Navigate(@, "/auth", "Dashboard")]
  /\ UNCHANGED <<dbVars, last>>

(* A tab trigger of the rendered Dashboard that is not the selected one:   *)
(* the manager shown is unmounted and the manager of the tab is mounted.   *)
Dashboard_onValueChange(tab) ==
  /\ Dashboard_showsTabs(client.shell)
  /\ tab # client.tab
  /\ OrphanedCount(TabsContent_unmount(client)) <= MaxOrphaned
  /\ client' = TabsContent_mount(TabsContent_unmount(client), tab)
  /\ UNCHANGED <<dbVars, last>>

Header_signOut ==
  /\ Dashboard_showsTabs(client.shell)
  /\ OrphanedCount(TabsContent_unmount(client)) <= MaxOrphaned
  /\ client' = Dashboard_render(WithSession(client, NULL_UUID),
                                [client.shell EXCEPT !.user = NULL_UUID])
  /\ UNCHANGED <<dbVars, last>>

ClientInit ==
  [session |-> NULL_UUID, tab |-> "alunos", mm |-> MatriculasInit,
   cm |-> [i \in CursoInstances |-> CursosInit], am |-> AlunosInit,
   shell |-> ShellInit]

(* The shell once user u is signed in and the Dashboard shows the Tabs,    *)
(* the auth context supplying userRole.                                    *)
ShellAtTabs(u, userRole) ==
  [ShellInit EXCEPT !.route = "/", !.user = u, !.userRole = userRole, !.loading = FALSE]

Init ==
  /\ auth_users = {}
  /\ profiles = {}
  /\ user_roles = {}
  /\ cursos = {}
  /\ alunos = {}
  /\ matriculas = {}
  /\ seq = [users |-> 0, user_roles |-> 0, cursos |-> 0, alunos |-> 0, matriculas |-> 0]
  /\ now = 0
  /\ last = NoResp
  /\ client = ClientInit

Metas == {[nome_completo |-> "Ana"], [plan |-> "free"]}

ProfilePatches ==
  [email : Emails] \cup [nome_completo : Nomes] \cup {[nome_completo |-> NULL_TEXT]}

Next ==
  \/ \E email \in Emails, meta \in Metas :
        CreateAuthSubject(email, meta) /\ UNCHANGED client
  \/ \E id \in 1..MaxUsers : DeleteAuthSubject(id) /\ UNCHANGED client
  \/ \E caller \in Callers, id \in 1..MaxUsers, patch \in ProfilePatches :
        UpdateProfile(caller, id, patch) /\ UNCHANGED client
  \/ \E caller \in Callers : Select(caller, "profiles") /\ UNCHANGED client
  \/ \E u \in 1..MaxUsers : OwnerInsertUserRole(u, "admin") /\ UNCHANGED client

Spec == Init /\ [][Next]_vars

----------------------------------------------------------------------------
(* SpecRoles: role assignments and has_role, starting from the empty       *)
(* schema.                                                                 *)

NextRoles ==
  \/ \E email \in Emails :
        CreateAuthSubject(email, [nome_completo |-> "Ana"]) /\ UNCHANGED client
  \/ \E id \in 1..MaxUsers : DeleteAuthSubject(id) /\ UNCHANGED client
  \/ \E u \in {NULL_UUID} \cup (1..MaxUsers), r \in app_role :
        RpcHasRole(u, r) /\ UNCHANGED client
  \/ \E u \in 1..MaxUsers, r \in app_role : OwnerInsertUserRole(u, r) /\ UNCHANGED client
  \/ \E caller \in Callers, u \in 1..MaxUsers, r \in app_role :
        InsertUserRole(caller, u, r) /\ UNCHANGED client
  \/ \E caller \in Callers, id \in 1..MaxRoleRows, r \in app_role :
        UpdateUserRole(caller, id, [role |-> r]) /\ UNCHANGED client
  \/ \E caller \in Callers, id \in 1..MaxRoleRows :
        DeleteUserRole(caller, id) /\ UNCHANGED client

SpecRoles == Init /\ [][NextRoles]_vars

----------------------------------------------------------------------------
(* The academic tables are exercised from a state in which two subjects    *)
(* have signed up and the owner has made the first of them an admin.       *)

InitAcademic ==
  /\ now = 0
  /\ auth_users = {[id |-> 1, email |-> "ana@x", raw_user_meta_data |-> [nome_completo |-> "Ana"]],
                   [id |-> 2, email |-> "bia@x", raw_user_meta_data |-> [nome_completo |-> "Ana"]]}
  /\ profiles = {handle_new_user(a, 0) : a \in auth_users}
  /\ user_roles = {[id |-> 1, user_id |-> 1, role |-> "admin", created_at |-> 0]}
  /\ cursos = {}
  /\ alunos = {}
  /\ matriculas = {}
  /\ seq = [users |-> 2, user_roles |-> 1, cursos |-> 0, alunos |-> 0, matriculas |-> 0]
  /\ last = NoResp
  /\ client = ClientInit

(* SpecCursos: statements on cursos by an admin, a user without a role and *)
(* a caller without a session.                                             *)

CursoVals ==
  [nome : {"ADS", "ENG"}, codigo_curso : {"A-1", "E-1"}, duracao_semestres : {0, 8}]
    \cup {[codigo_curso |-> "A-1", duracao_semestres |-> 8],
          [nome |-> "ADS", codigo_curso |-> "A-1"]}

CursoPatches ==
  [nome : {"ADS", "ENG"}, codigo_curso : {"A-1", "E-1"}, duracao_semestres : {0, 8}]

NextCursos ==
  \/ \E caller \in Callers, vals \in CursoVals : InsertCurso(caller, vals) /\ UNCHANGED client
  \/ \E caller \in Callers, id \in 1..MaxCursos, patch \in CursoPatches :
        UpdateCurso(caller, id, patch) /\ UNCHANGED client
  \/ \E caller \in Callers, id \in 1..MaxCursos : DeleteCurso(caller, id) /\ UNCHANGED client

SpecCursos == InitAcademic /\ [][NextCursos]_vars

(* SpecAlunos: statements on alunos.                                       *)

AlunoVals ==
  [nome_completo : {"Ana"}, matricula : {"2025-1-0001", "2025-1-0002"},
   cpf : {"111.111.111-11", "222.222.222-22"}, email : Emails,
   data_nascimento : {"2000-01-01"}, telefone : {""}, status : {"ATIVO"}]
    \cup {[nome_completo |-> "Ana", matricula |-> "2025-1-0001", email |-> "ana@x",
           data_nascimento |-> "2000-01-01"]}

AlunoPatches ==
  [status : {"INATIVO"}] \cup [matricula : {"2025-1-0001", "2025-1-0002"}]
    \cup [cpf : {"111.111.111-11", "222.222.222-22"}] \cup [email : Emails]

NextAlunos ==
  \/ \E caller \in Callers, vals \in AlunoVals : InsertAluno(caller, vals) /\ UNCHANGED client
  \/ \E caller \in Callers, id \in 1..MaxAlunos, patch \in AlunoPatches :
        UpdateAluno(caller, id, patch) /\ UNCHANGED client
  \/ \E caller \in Callers, id \in 1..MaxAlunos : DeleteAluno(caller, id) /\ UNCHANGED client

SpecAlunos == InitAcademic /\ [][NextAlunos]_vars

(* SpecMatriculas: statements on matriculas together with inserts and     *)
(* deletes of the students and courses they reference.                     *)

EnrollCursoVals ==
  {[nome |-> "ADS", codigo_curso |-> "A-1", duracao_semestres |-> 5],
   [nome |-> "ENG", codigo_curso |-> "E-1", duracao_semestres |-> 8]}

EnrollAlunoVals ==
  {[nome_completo |-> "Ana", matricula |-> "2025-1-0001", cpf |-> "111.111.111-11",
    email |-> "ana@x", data_nascimento |-> "2000-01-01"]}

(* Callers with a session.                                                 *)
SessionCallers == 1..seq.users

MatriculaVals ==
  [aluno_id : 1..MaxAlunos, curso_id : 1..MaxCursos, ano_ingresso : {2025},
   semestre_ingresso : {1, 3}]
    \cup {[curso_id |-> 1, ano_ingresso |-> 2025, semestre_ingresso |-> 1],
          [aluno_id |-> 1, curso_id |-> 1, ano_ingresso |-> 2025],
          [aluno_id |-> 1, curso_id |-> 1, semestre_ingresso |-> 3]}

MatriculaPatches == [curso_id : 1..MaxCursos] \cup [semestre_ingresso : {3}]

NextMatriculas ==
  \/ \E vals \in EnrollCursoVals : InsertCurso(1, vals) /\ UNCHANGED client
  \/ \E caller \in SessionCallers, id \in 1..MaxCursos : DeleteCurso(caller, id) /\ UNCHANGED client
  \/ \E vals \in EnrollAlunoVals : InsertAluno(1, vals) /\ UNCHANGED client
  \/ \E caller \in SessionCallers, id \in 1..MaxAlunos : DeleteAluno(caller, id) /\ UNCHANGED client
  \/ \E caller \in SessionCallers, vals \in MatriculaVals :
        InsertMatricula(caller, vals) /\ UNCHANGED client
  \/ \E caller \in SessionCallers, id \in 1..MaxMatriculas, patch \in MatriculaPatches :
        UpdateMatricula(caller, id, patch) /\ UNCHANGED client
  \/ \E caller \in SessionCallers, id \in 1..MaxMatriculas :
        DeleteMatricula(caller, id) /\ UNCHANGED client

SpecMatriculas == InitAcademic /\ [][NextMatriculas]_vars

(* SpecEnroll: the enrollment module of a signed-in user, admin or not,    *)
(* from its mount, whose effect has sent the three fetches, over one       *)
(* course, one active and one inactive student, next to statements sent to *)
(* the store directly.                                                     *)

InitEnroll ==
  /\ now = 0
  /\ auth_users = {[id |-> 1, email |-> "ana@x", raw_user_meta_data |-> [nome_completo |-> "Ana"]],
                   [id |-> 2, email |-> "bia@x", raw_user_meta_data |-> [nome_completo |-> "Ana"]]}
  /\ profiles = {handle_new_user(a, 0) : a \in auth_users}
  /\ user_roles = {[id |-> 1, user_id |-> 1, role |-> "admin", created_at |-> 0]}
  /\ cursos = {[id |-> 1, nome |-> "ADS", codigo_curso |-> "A-1", duracao_semestres |-> 5,
                created_at |-> 0, updated_at |-> 0]}
  /\ alunos = {[id |-> 1, nome_completo |-> "Ana", matricula |-> "2025-1-0001",
                cpf |-> "111.111.111-11", email |-> "ana@x",
                data_nascimento |-> "2000-01-01", telefone |-> NULL_TEXT,
                status |-> "ATIVO", created_at |-> 0, updated_at |-> 0],
               [id |-> 2, nome_completo |-> "Bia", matricula |-> "2025-1-0002",
                cpf |-> "222.222.222-22", email |-> "bia@x",
                data_nascimento |-> "2000-01-01", telefone |-> NULL_TEXT,
                status |-> "INATIVO", created_at |-> 0, updated_at |-> 0]}
  /\ matriculas = {}
  /\ seq = [users |-> 2, user_roles |-> 1, cursos |-> 1, alunos |-> 2, matriculas |-> 0]
  /\ last = NoResp
  /\ \E s \in {1, 2} :
        client = TabsContent_mount([ClientInit EXCEPT !.session = s,
                                                     !.shell = ShellAtTabs(s, "admin")],
                                   "matriculas")

EnrollVals == [aluno_id : {1}, curso_id : {1}, ano_ingresso : {CurrentYear},
               semestre_ingresso : {1, 3}]

NextEnroll ==
  \/ \E vals \in EnrollVals : InsertMatricula(1, vals) /\ UNCHANGED client
  \/ \E id \in 1..MaxMatriculas : DeleteMatricula(1, id) /\ UNCHANGED client
  \/ \E open \in BOOLEAN : Matriculas_onOpenChange(open)
  \/ \E i \in DOMAIN client.mm.alunos :
        Matriculas_setFormData([aluno_id |-> client.mm.alunos[i].id])
  \/ \E i \in DOMAIN client.mm.cursos :
        Matriculas_setFormData([curso_id |-> client.mm.cursos[i].id])
  \/ Matriculas_handleSubmit
  \/ \E req \in client.mm.inflight : Matriculas_insertExec(req)
  \/ \E req \in client.mm.inflight : Matriculas_handleSubmitResume(req)
  \/ \E req \in client.mm.inflight : Matriculas_fetchExec(req)
  \/ \E req \in client.mm.inflight : Matriculas_fetchMatriculasResume(req)
  \/ \E req \in client.mm.inflight : Matriculas_fetchAlunosExec(req)
  \/ \E req \in client.mm.inflight : Matriculas_fetchAlunosResume(req)
  \/ \E req \in client.mm.inflight : Matriculas_fetchCursosExec(req)
  \/ \E req \in client.mm.inflight : Matriculas_fetchCursosResume(req)

SpecEnroll == InitEnroll /\ [][NextEnroll]_vars

(* SpecPolicy: every mutation and every read of user_roles, cursos, alunos *)
(* and matriculas, by each kind of caller, while admins grant and revoke   *)
(* roles.                                                                  *)

PolicyCursoVals == {[nome |-> "ADS", codigo_curso |-> "A-1", duracao_semestres |-> 5]}

PolicyAlunoVals ==
  {[nome_completo |-> "Ana", matricula |-> "2025-1-0001", cpf |-> "111.111.111-11",
    email |-> "ana@x", data_nascimento |-> "2000-01-01"]}

PolicyMatriculaVals ==
  {[aluno_id |-> 1, curso_id |-> 1, ano_ingresso |-> 2025, semestre_ingresso |-> 1]}

NextPolicy ==
  \/ \E caller \in Callers, u \in 1..MaxUsers :
        InsertUserRole(caller, u, "admin") /\ UNCHANGED client
  \/ \E caller \in Callers :
        UpdateUserRole(caller, 1, [role |-> "leitor"]) /\ UNCHANGED client
  \/ \E caller \in Callers : DeleteUserRole(caller, 1) /\ UNCHANGED client
  \/ \E caller \in Callers, vals \in PolicyCursoVals :
        InsertCurso(caller, vals) /\ UNCHANGED client
  \/ \E caller \in Callers :
        UpdateCurso(caller, 1, [duracao_semestres |-> 6]) /\ UNCHANGED client
  \/ \E caller \in Callers : DeleteCurso(caller, 1) /\ UNCHANGED client
  \/ \E caller \in Callers, vals \in PolicyAlunoVals :
        InsertAluno(caller, vals) /\ UNCHANGED client
  \/ \E caller \in Callers :
        UpdateAluno(caller, 1, [status |-> "INATIVO"]) /\ UNCHANGED client
  \/ \E caller \in Callers : DeleteAluno(caller, 1) /\ UNCHANGED client
  \/ \E caller \in Callers, vals \in PolicyMatriculaVals :
        InsertMatricula(caller, vals) /\ UNCHANGED client
  \/ \E caller \in Callers :
        UpdateMatricula(caller, 1, [semestre_ingresso |-> 2]) /\ UNCHANGED client
  \/ \E caller \in Callers : DeleteMatricula(caller, 1) /\ UNCHANGED client
  \/ \E caller \in Callers, t \in {"cursos", "alunos", "matriculas"} :
        Select(caller, t) /\ UNCHANGED client

SpecPolicy == InitAcademic /\ [][NextPolicy]_vars

----------------------------------------------------------------------------
(* SpecProfiles: inserts and deletes of profile rows sent by clients, next *)
(* to sign-ups, deletions of auth subjects and the owner's grant of the    *)
(* admin role.                                                             *)

ProfileVals == [id : 1..MaxUsers, nome_completo : Nomes, email : Emails]

NextProfiles ==
  \/ \E email \in Emails :
        CreateAuthSubject(email, [nome_completo |-> "Ana"]) /\ UNCHANGED client
  \/ \E id \in 1..MaxUsers : DeleteAuthSubject(id) /\ UNCHANGED client
  \/ \E u \in 1..MaxUsers : OwnerInsertUserRole(u, "admin") /\ UNCHANGED client
  \/ \E caller \in Callers, vals \in ProfileVals :
        InsertProfile(caller, vals) /\ UNCHANGED client
  \/ \E caller \in Callers, id \in 1..MaxUsers :
        DeleteProfile(caller, id) /\ UNCHANGED client

SpecProfiles == Init /\ [][NextProfiles]_vars

----------------------------------------------------------------------------
(* SpecTime: inserts and updates of profiles, cursos and alunos while the  *)
(* clock advances, with statements that supply created_at or updated_at    *)
(* themselves.  created_at and updated_at are ordinary columns: TIMESTAMPTZ *)
(* DEFAULT now(), writable by whoever the policies let write the row.      *)

(* A timestamp later than every reading of the clock.                      *)
FutureTime == MaxNow + 1

TimeCursoVals ==
  {[nome |-> "ADS", codigo_curso |-> "A-1", duracao_semestres |-> 5],
   [nome |-> "ADS", codigo_curso |-> "A-1", duracao_semestres |-> 5,
    created_at |-> FutureTime]}

TimeCursoPatches ==
  {[duracao_semestres |-> 6], [updated_at |-> 0], [updated_at |-> FutureTime],
   [created_at |-> FutureTime]}

TimeAlunoVals ==
  {[nome_completo |-> "Ana", matricula |-> "2025-1-0001", cpf |-> "111.111.111-11",
    email |-> "ana@x", data_nascimento |-> "2000-01-01"]}

TimeAlunoPatches == {[status |-> "INATIVO"], [updated_at |-> 0]}

TimeProfilePatches == {[nome_completo |-> "Bia"], [updated_at |-> FutureTime]}

NextTime ==
  \/ Tick /\ UNCHANGED client
  \/ \E vals \in TimeCursoVals : InsertCurso(1, vals) /\ UNCHANGED client
  \/ \E caller \in SessionCallers, patch \in TimeCursoPatches :
        UpdateCurso(caller, 1, patch) /\ UNCHANGED client
  \/ \E vals \in TimeAlunoVals : InsertAluno(1, vals) /\ UNCHANGED client
  \/ \E patch \in TimeAlunoPatches : UpdateAluno(1, 1, patch) /\ UNCHANGED client
  \/ \E caller \in SessionCallers, patch \in TimeProfilePatches :
        UpdateProfile(caller, 2, patch) /\ UNCHANGED client

SpecTime == InitAcademic /\ [][NextTime]_vars

----------------------------------------------------------------------------
(* SpecStudents: the student module of a signed-in admin, its list loaded  *)
(* with the two students of whom the first is enrolled in a course, while  *)
(* the clock advances and the admin role of the session's user may be      *)
(* withdrawn.                                                              *)

StoredAluno(id, nome, matricula, cpf, email) ==
  [id |-> id, nome_completo |-> nome, matricula |-> matricula, cpf |-> cpf,
   email |-> email, data_nascimento |-> "2000-01-01", telefone |-> NULL_TEXT,
   status |-> "ATIVO", created_at |-> 0, updated_at |-> 0]

StoredCurso(id, nome, codigo) ==
  [id |-> id, nome |-> nome, codigo_curso |-> codigo, duracao_semestres |-> 5,
   created_at |-> 0, updated_at |-> 0]

InitStudents ==
  /\ now = 0
  /\ auth_users = {[id |-> 1, email |-> "ana@x", raw_user_meta_data |-> [nome_completo |-> "Ana"]],
                   [id |-> 2, email |-> "bia@x", raw_user_meta_data |-> [nome_completo |-> "Ana"]]}
  /\ profiles = {handle_new_user(a, 0) : a \in auth_users}
  /\ user_roles = {[id |-> 1, user_id |-> 1, role |-> "admin", created_at |-> 0]}
  /\ cursos = {StoredCurso(1, "ADS", "A-1")}
  /\ alunos = {StoredAluno(1, "Bia", "2025-1-0001", "111.111.111-11", "bia@x.co"),
               StoredAluno(2, "Ana", "2025-1-0002", "222.222.222-22", "ana@x.co")}
  /\ matriculas = {[id |-> 1, aluno_id |-> 1, curso_id |-> 1, ano_ingresso |-> 2025,
                    semestre_ingresso |-> 1, data_matricula |-> 0]}
  /\ seq = [users |-> 2, user_roles |-> 1, cursos |-> 1, alunos |-> 2, matriculas |-> 1]
  /\ last = NoResp
  /\ client = [ClientInit EXCEPT
                 !.session = 1, !.tab = "alunos", !.shell = ShellAtTabs(1, "admin"),
                 !.am = [AlunosInit EXCEPT
                           !.userRole = "admin",
                           !.alunos = <<AsAluno(RowById(alunos, 2)),
                                        AsAluno(RowById(alunos, 1))>>]]

NextStudents ==
  \/ Tick /\ UNCHANGED client
  \/ DeleteUserRole(1, 1) /\ UNCHANGED client
  \/ \E k \in DOMAIN client.am.alunos : Alunos_handleDelete(k)
  \/ \E req \in client.am.inflight : Alunos_mutationExec(req)
  \/ \E req \in client.am.inflight : Alunos_handleDeleteResume(req)
  \/ \E req \in client.am.inflight : Alunos_fetchExec(req)
  \/ \E req \in client.am.inflight : Alunos_fetchAlunosResume(req)

SpecStudents == InitStudents /\ [][NextStudents]_vars

----------------------------------------------------------------------------
(* SpecSubmit: the create and update submissions of the three modules.  A  *)
(* signed-in admin has one of the dashboard's tabs open, its lists loaded  *)
(* with the two students and the two courses of the store; the clock       *)
(* advances, and with it the year, while the enrollment form is in use.    *)

InitSubmit ==
  /\ now = 0
  /\ auth_users = {[id |-> 1, email |-> "ana@x", raw_user_meta_data |-> [nome_completo |-> "Ana"]],
                   [id |-> 2, email |-> "bia@x", raw_user_meta_data |-> [nome_completo |-> "Ana"]]}
  /\ profiles = {handle_new_user(a, 0) : a \in auth_users}
  /\ user_roles = {[id |-> 1, user_id |-> 1, role |-> "admin", created_at |-> 0]}
  /\ cursos = {StoredCurso(1, "ADS", "A-1"), StoredCurso(2, "ENG", "E-1")}
  /\ alunos = {StoredAluno(1, "Ana", "2025-1-0001", "111.111.111-11", "ana@x.co"),
               StoredAluno(2, "Caio", "2025-1-0002", "222.222.222-22", "caio@x.co")}
  /\ matriculas = {}
  /\ seq = [users |-> 2, user_roles |-> 1, cursos |-> 2, alunos |-> 2, matriculas |-> 0]
  /\ last = NoResp
  /\ \E tab \in {"alunos", "cursos", "matriculas"} :
        client = [ClientInit EXCEPT
                    !.session = 1, !.tab = tab, !.shell = ShellAtTabs(1, "admin"),
                    !.am = IF tab = "alunos"
                           THEN [AlunosInit EXCEPT
                                   !.userRole = "admin",
                                   !.alunos = <<AsAluno(RowById(alunos, 1)),
                                                AsAluno(RowById(alunos, 2))>>]
                           ELSE @,
                    !.cm[1] = IF tab = "cursos"
                              THEN [CursosInit EXCEPT
                                      !.session = 1, !.userRole = "admin",
                                      !.cursos = <<AsCurso(RowById(cursos, 1)),
                                                   AsCurso(RowById(cursos, 2))>>]
                              ELSE @,
                    !.mm = IF tab = "matriculas"
                           THEN [MatriculasInit EXCEPT !.userRole = "admin",
                                                       !.alunos = <<AsAlunoOption(RowById(alunos, 1)),
                                                                    AsAlunoOption(RowById(alunos, 2))>>,
                                                       !.cursos = <<AsCursoOption(RowById(cursos, 1)),
                                                                    AsCursoOption(RowById(cursos, 2))>>]
                           ELSE @]

SubmitCursoPatches == {[nome |-> "ENG"], [duracao_semestres |-> 6]}

SubmitAlunoPatches == {[matricula |-> "2025-3-0002"], [cpf |-> "222.222.222-22"]}

NextSubmit ==
  \/ client.tab = "matriculas" /\ now < MaxSubmitNow /\ Tick /\ UNCHANGED client
  \/ \E open \in BOOLEAN : client.tab = "cursos" /\ Cursos_onOpenChange(1, open)
  \/ \E patch \in SubmitCursoPatches : client.tab = "cursos" /\ Cursos_setFormData(1, patch)
  \/ client.tab = "cursos" /\ Cursos_openEditDialog(1, 1)
  \/ client.tab = "cursos" /\ Cursos_handleSubmit(1)
  \/ \E req \in client.cm[1].inflight : Cursos_mutationExec(1, req)
  \/ \E req \in client.cm[1].inflight : Cursos_handleSubmitResume(1, req)
  \/ \E req \in client.cm[1].inflight : Cursos_fetchExec(1, req)
  \/ \E req \in client.cm[1].inflight : Cursos_fetchCursosResume(1, req)
  \/ \E open \in BOOLEAN : client.tab = "alunos" /\ Alunos_onOpenChange(open)
  \/ \E patch \in SubmitAlunoPatches : client.tab = "alunos" /\ Alunos_setFormData(patch)
  \/ client.tab = "alunos" /\ Alunos_openEditDialog(1)
  \/ client.tab = "alunos" /\ Alunos_handleSubmit
  \/ \E req \in client.am.inflight : Alunos_mutationExec(req)
  \/ \E req \in client.am.inflight : Alunos_handleSubmitResume(req)
  \/ \E req \in client.am.inflight : Alunos_fetchExec(req)
  \/ \E req \in client.am.inflight : Alunos_fetchAlunosResume(req)
  \/ \E open \in BOOLEAN : client.tab = "matriculas" /\ Matriculas_onOpenChange(open)
  \/ \E k \in DOMAIN client.mm.alunos :
        client.tab = "matriculas" /\ Matriculas_setFormData([aluno_id |-> client.mm.alunos[k].id])
  \/ \E k \in DOMAIN client.mm.cursos :
        client.tab = "matriculas" /\ Matriculas_setFormData([curso_id |-> client.mm.cursos[k].id])
  \/ client.tab = "matriculas" /\ Matriculas_handleSubmit
  \/ \E req \in client.mm.inflight : Matriculas_insertExec(req)
  \/ \E req \in client.mm.inflight : Matriculas_handleSubmitResume(req)
  \/ \E req \in client.mm.inflight : Matriculas_fetchExec(req)
  \/ \E req \in client.mm.inflight : Matriculas_fetchMatriculasResume(req)

SpecSubmit == InitSubmit /\ [][NextSubmit]_vars

----------------------------------------------------------------------------
(* SpecDelete: the delete operations of the three modules.  A user who was *)
(* an admin when the dashboard loaded has one of the tabs open, its list   *)
(* loaded; the user's admin role may be withdrawn meanwhile.               *)

InitDelete ==
  /\ now = 0
  /\ auth_users = {[id |-> 1, email |-> "ana@x", raw_user_meta_data |-> [nome_completo |-> "Ana"]],
                   [id |-> 2, email |-> "bia@x", raw_user_meta_data |-> [nome_completo |-> "Ana"]]}
  /\ profiles = {handle_new_user(a, 0) : a \in auth_users}
  /\ user_roles = {[id |-> 1, user_id |-> 1, role |-> "admin", created_at |-> 0]}
  /\ cursos = {StoredCurso(1, "ADS", "A-1"), StoredCurso(2, "ENG", "E-1")}
  /\ alunos = {StoredAluno(1, "Ana", "2025-1-0001", "111.111.111-11", "ana@x.co"),
               StoredAluno(2, "Caio", "2025-1-0002", "222.222.222-22", "caio@x.co")}
  /\ matriculas = {[id |-> 1, aluno_id |-> 1, curso_id |-> 1, ano_ingresso |-> 2025,
                    semestre_ingresso |-> 1, data_matricula |-> 0],
                   [id |-> 2, aluno_id |-> 2, curso_id |-> 1, ano_ingresso |-> 2024,
                    semestre_ingresso |-> 1, data_matricula |-> 0]}
  /\ seq = [users |-> 2, user_roles |-> 1, cursos |-> 2, alunos |-> 2, matriculas |-> 2]
  /\ last = NoResp
  /\ \E tab \in {"alunos", "cursos", "matriculas"} :
        client = [ClientInit EXCEPT
                    !.session = 1, !.tab = tab, !.shell = ShellAtTabs(1, "admin"),
                    !.am = IF tab = "alunos"
                           THEN [AlunosInit EXCEPT
                                   !.userRole = "admin",
                                   !.alunos = <<AsAluno(RowById(alunos, 1)),
                                                AsAluno(RowById(alunos, 2))>>]
                           ELSE @,
                    !.cm[1] = IF tab = "cursos"
                              THEN [CursosInit EXCEPT
                                      !.session = 1, !.userRole = "admin",
                                      !.cursos = <<AsCurso(RowById(cursos, 1)),
                                                   AsCurso(RowById(cursos, 2))>>]
                              ELSE @,
                    !.mm = IF tab = "matriculas"
                           THEN [MatriculasInit EXCEPT !.userRole = "admin",
                                                       !.alunos = <<AsAlunoOption(RowById(alunos, 1)),
                                                                    AsAlunoOption(RowById(alunos, 2))>>,
                                                       !.cursos = <<AsCursoOption(RowById(cursos, 1)),
                                                                    AsCursoOption(RowById(cursos, 2))>>,
                                                       !.matriculas = <<1, 2>>]
                           ELSE @]

NextDelete ==
  \/ DeleteUserRole(1, 1) /\ UNCHANGED client
  \/ \E k \in DOMAIN client.cm[1].cursos : client.tab = "cursos" /\ Cursos_handleDelete(1, k)
  \/ \E req \in client.cm[1].inflight : Cursos_mutationExec(1, req)
  \/ \E req \in client.cm[1].inflight : Cursos_handleDeleteResume(1, req)
  \/ \E req \in client.cm[1].inflight : Cursos_fetchExec(1, req)
  \/ \E req \in client.cm[1].inflight : Cursos_fetchCursosResume(1, req)
  \/ \E k \in DOMAIN client.am.alunos : client.tab = "alunos" /\ Alunos_handleDelete(k)
  \/ \E req \in client.am.inflight : Alunos_mutationExec(req)
  \/ \E req \in client.am.inflight : Alunos_handleDeleteResume(req)
  \/ \E req \in client.am.inflight : Alunos_fetchExec(req)
  \/ \E req \in client.am.inflight : Alunos_fetchAlunosResume(req)
  \/ \E k \in DOMAIN client.mm.matriculas :
        client.tab = "matriculas" /\ Matriculas_handleDelete(k)
  \/ \E req \in client.mm.inflight : Matriculas_deleteExec(req)
  \/ \E req \in client.mm.inflight : Matriculas_handleDeleteResume(req)
  \/ \E req \in client.mm.inflight : Matriculas_fetchExec(req)
  \/ \E req \in client.mm.inflight : Matriculas_fetchMatriculasResume(req)

SpecDelete == InitDelete /\ [][NextDelete]_vars

----------------------------------------------------------------------------
(* SpecConcurrentEdit: two admins, each with the course module open in a   *)
(* browser of their own and the same course loaded in its list, edit and   *)
(* submit that course.                                                     *)

InitConcurrentEdit ==
  /\ now = 0
  /\ auth_users = {[id |-> 1, email |-> "ana@x", raw_user_meta_data |-> [nome_completo |-> "Ana"]],
                   [id |-> 2, email |-> "bia@x", raw_user_meta_data |-> [nome_completo |-> "Ana"]]}
  /\ profiles = {handle_new_user(a, 0) : a \in auth_users}
  /\ user_roles = {[id |-> 1, user_id |-> 1, role |-> "admin", created_at |-> 0],
                   [id |-> 2, user_id |-> 2, role |-> "admin", created_at |-> 0]}
  /\ cursos = {StoredCurso(1, "ADS", "A-1")}
  /\ alunos = {}
  /\ matriculas = {}
  /\ seq = [users |-> 2, user_roles |-> 2, cursos |-> 1, alunos |-> 0, matriculas |-> 0]
  /\ last = NoResp
  /\ client = [ClientInit EXCEPT
                 !.session = 1, !.tab = "cursos", !.shell = ShellAtTabs(1, "admin"),
                 !.cm = [i \in CursoInstances |->
                           [CursosInit EXCEPT
                              !.session = i, !.userRole = "admin",
                              !.cursos = <<AsCurso(RowById(cursos, 1))>>]]]

(* What each admin types into the edit form.                               *)
ConcurrentEditPatch(i) ==
  IF i = 1 THEN [duracao_semestres |-> 6] ELSE [nome |-> "SIS"]

(* Each admin opens the edit dialog until the first answer to a submit has *)
(* been shown.                                                             *)
NextConcurrentEdit ==
  \/ \E i \in CursoInstances :
        client.cm[i].toast = NoToast /\ Cursos_openEditDialog(i, 1)
  \/ \E i \in CursoInstances : Cursos_setFormData(i, ConcurrentEditPatch(i))
  \/ \E i \in CursoInstances : Cursos_handleSubmit(i)
  \/ \E i \in CursoInstances : \E req \in client.cm[i].inflight : Cursos_mutationExec(i, req)
  \/ \E i \in CursoInstances : \E req \in client.cm[i].inflight :
        Cursos_handleSubmitResume(i, req)
  \/ \E i \in CursoInstances : \E req \in client.cm[i].inflight : Cursos_fetchExec(i, req)
  \/ \E i \in CursoInstances : \E req \in client.cm[i].inflight :
        Cursos_fetchCursosResume(i, req)

SpecConcurrentEdit == InitConcurrentEdit /\ [][NextConcurrentEdit]_vars

----------------------------------------------------------------------------
(* SpecCourseList: an admin opens the course module, whose mount effect    *)
(* has sent fetchCursos, and creates a course while that request and the   *)
(* one sent after the create are answered in either order.                 *)

InitCourseList ==
  /\ now = 0
  /\ auth_users = {[id |-> 1, email |-> "ana@x", raw_user_meta_data |-> [nome_completo |-> "Ana"]]}
  /\ profiles = {handle_new_user(a, 0) : a \in auth_users}
  /\ user_roles = {[id |-> 1, user_id |-> 1, role |-> "admin", created_at |-> 0]}
  /\ cursos = {StoredCurso(1, "ENG", "E-1")}
  /\ alunos = {}
  /\ matriculas = {}
  /\ seq = [users |-> 1, user_roles |-> 1, cursos |-> 1, alunos |-> 0, matriculas |-> 0]
  /\ last = NoResp
  /\ client = TabsContent_mount([ClientInit EXCEPT !.session = 1, !.cm[1].session = 1,
                                                   !.shell = ShellAtTabs(1, "admin")],
                                 "cursos")

CourseListPatches == {[nome |-> "ADS"], [codigo_curso |-> "A-1"]}

NextCourseList ==
  \/ Cursos_onOpenChange(1, TRUE)
  \/ \E patch \in CourseListPatches : Cursos_setFormData(1, patch)
  \/ Cursos_handleSubmit(1)
  \/ \E req \in client.cm[1].inflight : Cursos_mutationExec(1, req)
  \/ \E req \in client.cm[1].inflight : Cursos_handleSubmitResume(1, req)
  \/ \E req \in client.cm[1].inflight : Cursos_fetchExec(1, req)
  \/ \E req \in client.cm[1].inflight : Cursos_fetchCursosResume(1, req)

SpecCourseList == InitCourseList /\ [][NextCourseList]_vars

----------------------------------------------------------------------------
(* SpecAuth: a visitor on the Auth page fills the form, switches between   *)
(* login and sign-up and submits; the provider answers each call.          *)

InitAuth ==
  /\ now = 0
  /\ auth_users = {[id |-> 1, email |-> "ana@x.io",
                    raw_user_meta_data |-> [nome_completo |-> "Ana"]]}
  /\ profiles = {handle_new_user(a, 0) : a \in auth_users}
  /\ user_roles = {}
  /\ cursos = {}
  /\ alunos = {}
  /\ matriculas = {}
  /\ seq = [users |-> 1, user_roles |-> 0, cursos |-> 0, alunos |-> 0, matriculas |-> 0]
  /\ last = NoResp
  /\ client = ClientInit

AuthPatches ==
  {[email |-> "ana@x.io"], [email |-> "bia@x.io"], [email |-> "ana@x"],
   [password |-> "secret"], [confirmPassword |-> "secret"], [nomeCompleto |-> "Ana"]}

ProviderAnswers ==
  \E req \in client.shell.inflight : Auth_signInExec(req) \/ Auth_signUpExec(req)

HandlerResumes ==
  \E req \in client.shell.inflight : Auth_handleSubmitResume(req)

NextAuth ==
  \/ Context_sessionLoaded
  \/ Context_onAuthStateChange
  \/ Auth_render
  \/ Auth_setIsLogin
  \/ \E patch \in AuthPatches : Auth_setField(patch)
  \/ Auth_handleSubmit
  \/ \E req \in client.shell.inflight : Auth_signInExec(req)
  \/ \E req \in client.shell.inflight : Auth_signUpExec(req)
  \/ \E req \in client.shell.inflight : Auth_handleSubmitResume(req)
  \/ Dashboard_effect

(* Every call to the provider settles, the handler awaiting it is resumed  *)
(* and an effect that is due is run.                                       *)
SpecAuth ==
  /\ InitAuth /\ [][NextAuth]_vars
  /\ WF_vars(ProviderAnswers) /\ WF_vars(HandlerResumes) /\ WF_vars(Dashboard_effect)

----------------------------------------------------------------------------
(* SpecPages: a visitor opens either page while the auth context is still  *)
(* loading, signs in on the Auth page, selects the Dashboard's tabs, whose *)
(* managers load their lists, and signs out.                               *)

InitPages ==
  /\ now = 0
  /\ auth_users = {[id |-> 1, email |-> "ana@x.io",
                    raw_user_meta_data |-> [nome_completo |-> "Ana"]]}
  /\ profiles = {handle_new_user(a, 0) : a \in auth_users}
  /\ user_roles = {}
  /\ cursos = {StoredCurso(1, "ADS", "A-1")}
  /\ alunos = {StoredAluno(1, "Caio", "2025-1-0001", "111.111.111-11", "caio@x.co"),
               [StoredAluno(2, "Ana", "2025-1-0002", "222.222.222-22", "ana@x.co")
                  EXCEPT !.status = "INATIVO"]}
  /\ matriculas = {[id |-> 1, aluno_id |-> 1, curso_id |-> 1, ano_ingresso |-> 2025,
                    semestre_ingresso |-> 1, data_matricula |-> 0]}
  /\ seq = [users |-> 1, user_roles |-> 0, cursos |-> 1, alunos |-> 2, matriculas |-> 1]
  /\ last = NoResp
  /\ \E route \in {"/", "/auth"} :
        client = [ClientInit EXCEPT !.shell.route = route]

PagesPatches == {[email |-> "ana@x.io"], [password |-> "secret"]}

NextPages ==
  \/ Context_sessionLoaded
  \/ Context_onAuthStateChange
  \/ Auth_render
  \/ \E patch \in PagesPatches : Auth_setField(patch)
  \/ Auth_handleSubmit
  \/ \E req \in client.shell.inflight : Auth_signInExec(req)
  \/ \E req \in client.shell.inflight : Auth_handleSubmitResume(req)
  \/ Dashboard_effect
  \/ \E tab \in {"alunos", "cursos", "matriculas"} : Dashboard_onValueChange(tab)
  \/ Header_signOut
  \/ \E req \in client.am.inflight : Alunos_fetchExec(req)
  \/ \E req \in client.am.inflight : Alunos_fetchAlunosResume(req)
  \/ \E req \in client.cm[1].inflight : Cursos_fetchExec(1, req)
  \/ \E req \in client.cm[1].inflight : Cursos_fetchCursosResume(1, req)
  \/ \E req \in client.mm.inflight : Matriculas_fetchExec(req)
  \/ \E req \in client.mm.inflight : Matriculas_fetchMatriculasResume(req)
  \/ \E req \in client.mm.inflight : Matriculas_fetchAlunosExec(req)
  \/ \E req \in client.mm.inflight : Matriculas_fetchAlunosResume(req)
  \/ \E req \in client.mm.inflight : Matriculas_fetchCursosExec(req)
  \/ \E req \in client.mm.inflight : Matriculas_fetchCursosResume(req)

(* An effect that is due is run.                                           *)
SpecPages == InitPages /\ [][NextPages]_vars /\ WF_vars(Dashboard_effect)

----------------------------------------------------------------------------
(* SpecRoleView: the Dashboard of user 1, an admin in the store, shows one *)
(* of the three modules with its list loaded while the role the auth       *)
(* context supplies changes between none, leitor and admin.                *)

InitRoleView ==
  /\ now = 0
  /\ auth_users = {[id |-> 1, email |-> "ana@x", raw_user_meta_data |-> [nome_completo |-> "Ana"]]}
  /\ profiles = {handle_new_user(a, 0) : a \in auth_users}
  /\ user_roles = {[id |-> 1, user_id |-> 1, role |-> "admin", created_at |-> 0]}
  /\ cursos = {StoredCurso(1, "ADS", "A-1")}
  /\ alunos = {StoredAluno(1, "Ana", "2025-1-0001", "111.111.111-11", "ana@x.co")}
  /\ matriculas = {[id |-> 1, aluno_id |-> 1, curso_id |-> 1, ano_ingresso |-> 2025,
                    semestre_ingresso |-> 1, data_matricula |-> 0]}
  /\ seq = [users |-> 1, user_roles |-> 1, cursos |-> 1, alunos |-> 1, matriculas |-> 1]
  /\ last = NoResp
  /\ \E tab \in {"alunos", "cursos", "matriculas"} :
        client = [ClientInit EXCEPT
                    !.session = 1, !.tab = tab, !.shell = ShellAtTabs(1, NULL_TEXT),
                    !.am = IF tab = "alunos"
                           THEN [AlunosInit EXCEPT
                                   !.alunos = <<AsAluno(RowById(alunos, 1))>>]
                           ELSE @,
                    !.cm[1] = IF tab = "cursos"
                              THEN [CursosInit EXCEPT
                                      !.session = 1,
                                      !.cursos = <<AsCurso(RowById(cursos, 1))>>]
                              ELSE @,
                    !.mm = IF tab = "matriculas"
                           THEN [MatriculasInit EXCEPT
                                   !.alunos = <<AsAlunoOption(RowById(alunos, 1))>>,
                                   !.cursos = <<AsCursoOption(RowById(cursos, 1))>>,
                                   !.matriculas = <<1>>]
                           ELSE @]

UserRoles == {NULL_TEXT, "leitor", "admin"}

NextRoleView ==
  \/ \E role \in UserRoles : Context_setUserRole(role)
  \/ client.tab = "cursos" /\ Cursos_onOpenChange(1, TRUE)
  \/ client.tab = "cursos" /\ Cursos_openEditDialog(1, 1)
  \/ client.tab = "cursos" /\ Cursos_handleSubmit(1)
  \/ client.tab = "cursos" /\ Cursos_handleDelete(1, 1)
  \/ \E req \in client.cm[1].inflight : Cursos_mutationExec(1, req)
  \/ \E req \in client.cm[1].inflight : Cursos_handleSubmitResume(1, req)
  \/ \E req \in client.cm[1].inflight : Cursos_handleDeleteResume(1, req)
  \/ \E req \in client.cm[1].inflight : Cursos_fetchExec(1, req)
  \/ \E req \in client.cm[1].inflight : Cursos_fetchCursosResume(1, req)
  \/ client.tab = "alunos" /\ Alunos_onOpenChange(TRUE)
  \/ client.tab = "alunos" /\ Alunos_openEditDialog(1)
  \/ client.tab = "alunos" /\ Alunos_handleSubmit
  \/ client.tab = "alunos" /\ Alunos_handleDelete(1)
  \/ \E req \in client.am.inflight : Alunos_mutationExec(req)
  \/ \E req \in client.am.inflight : Alunos_handleSubmitResume(req)
  \/ \E req \in client.am.inflight : Alunos_handleDeleteResume(req)
  \/ \E req \in client.am.inflight : Alunos_fetchExec(req)
  \/ \E req \in client.am.inflight : Alunos_fetchAlunosResume(req)
  \/ client.tab = "matriculas" /\ Matriculas_onOpenChange(TRUE)
  \/ client.tab = "matriculas" /\ Matriculas_handleSubmit
  \/ client.tab = "matriculas" /\ Matriculas_handleDelete(1)
  \/ \E req \in client.mm.inflight : Matriculas_insertExec(req)
  \/ \E req \in client.mm.inflight : Matriculas_handleSubmitResume(req)
  \/ \E req \in client.mm.inflight : Matriculas_deleteExec(req)
  \/ \E req \in client.mm.inflight : Matriculas_handleDeleteResume(req)
  \/ \E req \in client.mm.inflight : Matriculas_fetchExec(req)
  \/ \E req \in client.mm.inflight : Matriculas_fetchMatriculasResume(req)

SpecRoleView == InitRoleView /\ [][NextRoleView]_vars

----------------------------------------------------------------------------
(* Properties                                                              *)

HoldsRole(u, r) == \E x \in user_roles : x.user_id = u /\ x.role = r

(* C2: a caller u can read a profile p iff p.id = u or u holds the admin   *)
(* role, and can update p iff p.id = u; a SELECT on profiles returns       *)
(* exactly the readable rows and an UPDATE touches a row only when it is   *)
(* the caller's own, which the policy never refuses (a constraint of the   *)
(* table may).                                                             *)
C2_ProfileAccess ==
  /\ \A u \in Callers, p \in profiles :
       /\ PolicyAllows("profiles", "SELECT", u, p) <=> (p.id = u \/ HoldsRole(u, "admin"))
       /\ CanTarget("profiles", "UPDATE", u, p) <=> (p.id = u)
  /\ (last.stmt = "select" /\ last.table = "profiles") =>
       last.rows = {p.id : p \in {q \in profiles :
                                    q.id = last.caller \/ HoldsRole(last.caller, "admin")}}
  /\ (last.stmt = "update" /\ last.table = "profiles") =>
       /\ last.count = 1 => last.id = last.caller
       /\ (last.id = last.caller /\ \E p \in profiles : p.id = last.id) =>
            (last.count = 1 \/ last.error \in {"unique", "not_null"})

C2_Witness ==
  /\ last.stmt = "update" /\ last.table = "profiles"
  /\ HoldsRole(last.caller, "admin")
  /\ last.id # last.caller
  /\ \E p \in profiles : p.id = last.id
  /\ last.count = 0 /\ last.error = "none"

(* C7: a sign-up either adds exactly one auth subject and exactly one      *)
(* profile with the subject's id and email, in the same step, or adds      *)
(* neither.                                                                *)
C7_ProvisioningAtomic ==
  [][last'.stmt = "signup" =>
       IF last'.error = "none"
       THEN /\ \E a \in auth_users' \ auth_users :
                 /\ a.id = last'.id /\ a.email = last'.row.email
                 /\ auth_users' = auth_users \cup {a}
            /\ \E p \in profiles' \ profiles :
                 /\ p.id = last'.id /\ p.email = last'.row.email
                 /\ profiles' = profiles \cup {p}
            /\ Cardinality({p \in profiles' : p.id = last'.id}) = 1
       ELSE UNCHANGED <<auth_users, profiles>>]_vars

C7_Witness ==
  /\ last.stmt = "signup" /\ last.error = "unique"
  /\ ~ \E a \in auth_users : a.email = last.row.email
  /\ \E p \in profiles : p.email = last.row.email

(* C8: has_role(u, r) is true iff a user_roles row (u, r) exists, for      *)
(* every u including the NULL of a caller without a session, and calling   *)
(* it changes no table.                                                    *)
C8_HasRoleIffRowExists ==
  [][/\ \A u \in {NULL_UUID} \cup (1..MaxUsers), r \in app_role :
          has_role(u, r) <=> HoldsRole(u, r)
     /\ last'.stmt = "rpc" =>
          /\ UNCHANGED dbVars
          /\ (last'.count = 1) <=> HoldsRole(last'.id, last'.row.role)]_vars

C8_Witness ==
  /\ last.stmt = "rpc" /\ last.count = 0
  /\ \E x \in user_roles : x.user_id = last.id /\ x.role # last.row.role

UniqueCursos ==
  \A c, d \in cursos : c.id # d.id => c.nome # d.nome /\ c.codigo_curso # d.codigo_curso

DuplicatesCurso(vals) ==
  \E c \in cursos : \/ "nome" \in DOMAIN vals /\ c.nome = vals.nome
                    \/ "codigo_curso" \in DOMAIN vals /\ c.codigo_curso = vals.codigo_curso

(* C4 as stated: every insert of a course with the name or the code of an *)
(* existing course fails with a uniqueness violation.                      *)
C4_Original ==
  [][(last'.stmt = "insert" /\ last'.table = "cursos" /\ DuplicatesCurso(last'.row)) =>
       last'.error = "unique" /\ UNCHANGED cursos]_vars

(* C4: an insert of a course with the name or the code of an existing      *)
(* course fails and leaves cursos unchanged; the failure is the uniqueness *)
(* violation when the caller holds the admin role and the row has its      *)
(* NOT NULL columns, and the policy denial or the not-null violation, both *)
(* checked earlier, otherwise.  Names and codes stay pairwise distinct.    *)
C4_DuplicateCursoRejected ==
  [][/\ UniqueCursos'
     /\ (last'.stmt = "insert" /\ last'.table = "cursos" /\ DuplicatesCurso(last'.row)) =>
          /\ UNCHANGED cursos
          /\ last'.error = IF ~ HoldsRole(last'.caller, "admin") THEN "rls"
                           ELSE IF \E col \in {"nome", "codigo_curso", "duracao_semestres"} :
                                      col \notin DOMAIN last'.row
                                THEN "not_null"
                           ELSE "unique"]_vars

C4_Witness ==
  /\ last.stmt = "insert" /\ last.table = "cursos" /\ last.error = "unique"
  /\ \E c \in cursos : c.codigo_curso = last.row.codigo_curso /\ c.nome # last.row.nome

UniqueAlunos ==
  \A a, b \in alunos :
     a.id # b.id => a.matricula # b.matricula /\ a.cpf # b.cpf /\ a.email # b.email

ClashesAluno(vals, self) ==
  \E a \in alunos :
     /\ a.id # self
     /\ \E col \in {"matricula", "cpf", "email"} : col \in DOMAIN vals /\ a[col] = vals[col]

(* C9: students of every status have pairwise distinct matricula, cpf and  *)
(* email; an insert or update that would break this is not applied.        *)
C9_UniqueAlunos ==
  [][/\ UniqueAlunos'
     /\ (last'.table = "alunos" /\
           ((last'.stmt = "insert" /\ ClashesAluno(last'.row, NULL_UUID)) \/
            (last'.stmt = "update" /\ ClashesAluno(last'.row, last'.id)))) =>
          /\ UNCHANGED alunos
          /\ last'.count = 0]_vars

C9_Witness ==
  /\ last.stmt = "update" /\ last.table = "alunos" /\ last.error = "unique"
  /\ \E a \in alunos : a.id # last.id /\ a.status = "INATIVO" /\ "cpf" \in DOMAIN last.row
                       /\ a.cpf = last.row.cpf

PolicedTables == {"user_roles", "cursos", "alunos", "matriculas"}

(* C1: an insert, update or delete on user_roles, cursos, alunos or        *)
(* matriculas by a caller who holds no admin role assignment changes none  *)
(* of these tables and affects no row; the insert is refused with the      *)
(* policy error.                                                           *)
C1_NonAdminMutationDenied ==
  [][(/\ last'.stmt \in {"insert", "update", "delete"}
      /\ last'.table \in PolicedTables
      /\ ~ HoldsRole(last'.caller, "admin")) =>
       /\ UNCHANGED <<user_roles, cursos, alunos, matriculas>>
       /\ last'.count = 0
       /\ last'.stmt = "insert" => last'.error = "rls"]_vars

C1_Witness ==
  /\ last.stmt = "delete" /\ last.table = "matriculas"
  /\ last.caller # NULL_UUID /\ ~ HoldsRole(last.caller, "admin")
  /\ \E m \in matriculas : m.id = last.id
  /\ last.count = 0

ReadTables == {"cursos", "alunos", "matriculas"}

(* C10: a caller with a session, whatever its role assignments, reads      *)
(* every row of cursos, alunos and matriculas; a caller without a session  *)
(* reads none.                                                             *)
C10_ReadAccess ==
  /\ \A u \in Callers, t \in ReadTables :
       Visible(t, u) = IF u # NULL_UUID THEN TableRows(t) ELSE {}
  /\ (last.stmt = "select" /\ last.table \in ReadTables) =>
       last.rows = IF last.caller # NULL_UUID
                   THEN {r.id : r \in TableRows(last.table)} ELSE {}

C10_Witness ==
  /\ last.stmt = "select" /\ last.table = "alunos"
  /\ last.caller # NULL_UUID
  /\ ~ \E x \in user_roles : x.user_id = last.caller
  /\ last.rows # {}

(* C5 as stated, for a caller the policy admits: deleting a course that an *)
(* enrollment references fails with a foreign-key violation and changes    *)
(* neither cursos nor matriculas.                                          *)
C5_DeleteReferencedCursoFails ==
  [][(/\ last'.stmt = "delete" /\ last'.table = "cursos"
      /\ HoldsRole(last'.caller, "admin")
      /\ \E c \in cursos : c.id = last'.id
      /\ \E m \in matriculas : m.curso_id = last'.id) =>
       /\ last'.error = "fk"
       /\ UNCHANGED <<cursos, matriculas>>]_vars

RefIntegrity ==
  \A m \in matriculas : /\ \E a \in alunos : a.id = m.aluno_id
                        /\ \E c \in cursos : c.id = m.curso_id

(* C6: deleting a student or a course removes exactly the enrollments that *)
(* reference it, so every enrollment refers to an existing student and an  *)
(* existing course.                                                        *)
C6_CascadeKeepsReferences ==
  [][/\ RefIntegrity'
     /\ (last'.stmt = "delete" /\ last'.table = "cursos" /\ last'.count = 1) =>
          matriculas' = {m \in matriculas : m.curso_id # last'.id}
     /\ (last'.stmt = "delete" /\ last'.table = "alunos" /\ last'.count = 1) =>
          matriculas' = {m \in matriculas : m.aluno_id # last'.id}]_vars

C6_Witness ==
  /\ last.stmt = "delete" /\ last.table = "cursos" /\ last.count = 1
  /\ last.rows # {}
  /\ matriculas # {}

UniquePairs ==
  \A m, n \in matriculas :
     m.id # n.id => ~ (m.aluno_id = n.aluno_id /\ m.curso_id = n.curso_id)

DuplicatesPair(vals) ==
  \E m \in matriculas : m.aluno_id = vals.aluno_id /\ m.curso_id = vals.curso_id

AlreadyEnrolledHint == <<"Aluno", "já", "está", "matriculado", "neste", "curso">>

(* A step in which the store executed a statement: the response changed,  *)
(* or a request of the module went from sent to answered.                  *)
StatementStep ==
  \/ last' # last
  \/ \E req \in client.mm.inflight : req.phase = "sent" /\ req \notin client'.mm.inflight

ResumedInsert(req) ==
  /\ req \in client.mm.inflight /\ req \notin client'.mm.inflight
  /\ req.kind = "insert" /\ req.phase = "answered"

(* C3 as stated: every insert of an enrollment whose (aluno_id, curso_id)  *)
(* pair exists fails with a uniqueness violation, which the module reports *)
(* with the 'already enrolled' hint.                                       *)
C3_Original ==
  [][/\ (/\ StatementStep
         /\ last'.stmt = "insert" /\ last'.table = "matriculas"
         /\ DuplicatesPair(last'.row)) =>
          last'.error = "unique" /\ UNCHANGED matriculas
     /\ \A req \in client.mm.inflight :
          (ResumedInsert(req) /\ DuplicatesPair(req.vals)) =>
             client'.mm.toast.description = AlreadyEnrolledHint]_vars

(* C3: an insert of an enrollment whose (aluno_id, curso_id) pair exists   *)
(* fails and leaves matriculas unchanged, so no two enrollments share a    *)
(* pair; the failure is the policy denial for a caller without the admin   *)
(* role, the check violation for a semester other than 1 or 2, and the     *)
(* uniqueness violation otherwise.  The module shows the 'already          *)
(* enrolled' hint exactly for the uniqueness violation and the store's     *)
(* message for any other rejection.                                        *)
C3_DuplicateEnrollmentRejected ==
  [][/\ UniquePairs'
     /\ (/\ StatementStep
         /\ last'.stmt = "insert" /\ last'.table = "matriculas"
         /\ DuplicatesPair(last'.row)) =>
          /\ UNCHANGED matriculas
          /\ last'.error = IF ~ HoldsRole(last'.caller, "admin") THEN "rls"
                           ELSE IF last'.row.semestre_ingresso \notin {1, 2} THEN "check"
                           ELSE "unique"
     /\ \A req \in client.mm.inflight :
          (ResumedInsert(req) /\ req.error # "none") =>
             /\ client'.mm.toast.variant = "destructive"
             /\ client'.mm.toast.description =
                  IF req.error = "unique" THEN AlreadyEnrolledHint
                  ELSE ErrorMessage(req.error)]_vars

C3_Witness ==
  /\ client.mm.toast.description = AlreadyEnrolledHint
  /\ last.stmt = "insert" /\ last.table = "matriculas" /\ last.error = "unique"
  /\ last.caller = client.session
  /\ DuplicatesPair(last.row)

ProfileIds == {p.id : p \in profiles}

(* C11: an insert into or a delete from profiles sent by a client, whoever *)
(* the caller, affects no row (the insert is refused with the policy       *)
(* error); the set of profile rows grows only in a successful sign-up, by  *)
(* the new subject's profile, and shrinks only in the deletion of an auth  *)
(* subject, by that subject's profile.                                     *)
C11_ProfilesOnlyByProvisioning ==
  [][/\ (last'.table = "profiles" /\ last'.stmt \in {"insert", "delete"}) =>
          /\ UNCHANGED profiles
          /\ last'.count = 0
          /\ last'.stmt = "insert" => last'.error = "rls"
     /\ (ProfileIds' \ ProfileIds) # {} =>
          /\ last'.stmt = "signup" /\ last'.error = "none"
          /\ ProfileIds' = ProfileIds \cup {last'.id}
     /\ (ProfileIds \ ProfileIds') # {} =>
          /\ last'.stmt = "delete" /\ last'.table = "auth.users"
          /\ ProfileIds' = ProfileIds \ {last'.id}]_vars

C11_Witness ==
  /\ last.stmt = "delete" /\ last.table = "profiles"
  /\ HoldsRole(last.caller, "admin")
  /\ \E p \in profiles : p.id = last.id
  /\ last.count = 0

TimedTables == {"profiles", "cursos", "alunos"}

(* A step in which the store executed a statement updating row id of table *)
(* t successfully.                                                         *)
UpdatedRow(t, id) ==
  /\ now' = now
  /\ last'.stmt = "update" /\ last'.table = t /\ last'.id = id /\ last'.count = 1

(* The updated row carries a reading of the store's clock, whatever        *)
(* updated_at the statement supplied.                                      *)
StampedByTrigger ==
  \A t \in TimedTables : \A r \in TableRows(t)' :
     UpdatedRow(t, r.id) => r.updated_at \in 0..now'

(* C12 as stated: every successful update stamps the row with the store's  *)
(* time, a row's updated_at never decreases and is never earlier than its  *)
(* created_at.                                                             *)
C12_Original ==
  [][/\ StampedByTrigger
     /\ \A t \in TimedTables : \A r \in TableRows(t) : \A r2 \in TableRows(t)' :
          r2.id = r.id => r2.updated_at >= r.updated_at
     /\ \A t \in TimedTables : \A r2 \in TableRows(t)' :
          r2.updated_at >= r2.created_at]_vars

(* A step in which the store executed the request req of the student       *)
(* module's delete operation.                                              *)
Alunos_deleteExecuted(req) ==
  /\ req \in client.am.inflight /\ req.kind = "delete" /\ req.phase = "sent"
  /\ req \notin client'.am.inflight

Alunos_deletePermitted(req) ==
  /\ HoldsRole(req.session, "admin")
  /\ \E a \in alunos : a.id = req.id

(* C13 as stated: the permitted delete operation of the student module     *)
(* changes nothing but the status of the targeted row.                     *)
C13_Original ==
  [][\A req \in client.am.inflight :
       (Alunos_deleteExecuted(req) /\ Alunos_deletePermitted(req)) =>
          /\ alunos' = (alunos \ {RowById(alunos, req.id)})
                          \cup {[RowById(alunos, req.id) EXCEPT !.status = "INATIVO"]}
          /\ UNCHANGED <<auth_users, profiles, user_roles, cursos, matriculas>>]_vars

(* C13: the delete operation of the student module, when the caller holds  *)
(* the admin role and the row exists, sets the status of the targeted row  *)
(* to INATIVO and, through the timestamp trigger, its updated_at to the    *)
(* statement's NOW(); every other field of the row, every other student and     *)
(* every enrollment, those of the student included, stay as they were.     *)
(* When the caller does not hold the role nothing changes.                 *)
C13_SoftDelete ==
  [][\A req \in client.am.inflight :
       Alunos_deleteExecuted(req) =>
          IF Alunos_deletePermitted(req)
          THEN /\ \E NOW \in 0..now :
                    alunos' = (alunos \ {RowById(alunos, req.id)})
                                 \cup {[RowById(alunos, req.id) EXCEPT
                                          !.status = "INATIVO", !.updated_at = NOW]}
               /\ UNCHANGED <<auth_users, profiles, user_roles, cursos, matriculas>>
          ELSE UNCHANGED dbVars]_vars

C13_Witness ==
  /\ client.am.toast.title = "Aluno desativado com sucesso!"
  /\ \E a \in alunos : /\ a.status = "INATIVO" /\ a.updated_at > a.created_at
                        /\ \E m \in matriculas : m.aluno_id = a.id
  /\ \E b \in alunos : b.status = "ATIVO"

(* The enrollment form lacks a student or a course.                        *)
Matriculas_formIncomplete(formData) ==
  formData.aluno_id = EMPTY_UUID \/ formData.curso_id = EMPTY_UUID

(* C14 as stated: in each of the three modules a submission whose form     *)
(* data fails shape validation sends no request and shows the message of   *)
(* the first violation.                                                    *)
C14_InvalidFormNotSent ==
  [][/\ (Cursos_handleSubmit(1) /\ cursoSchema(client.cm[1].formData) # <<>>) =>
          /\ client'.cm[1].inflight = client.cm[1].inflight
          /\ client'.cm[1].toast.variant = "destructive"
          /\ client'.cm[1].toast.description = <<cursoSchema(client.cm[1].formData)[1]>>
     /\ (Alunos_handleSubmit /\ alunoSchema(client.am.formData) # <<>>) =>
          /\ client'.am.inflight = client.am.inflight
          /\ client'.am.toast.variant = "destructive"
          /\ client'.am.toast.description = <<alunoSchema(client.am.formData)[1]>>
     /\ (Matriculas_handleSubmit /\ Matriculas_formIncomplete(client.mm.formData)) =>
          /\ client'.mm.inflight = client.mm.inflight
          /\ client'.mm.toast.variant = "destructive"]_vars

(* A step in which a module resumed after the answer to the create or      *)
(* update request req.                                                     *)
ResumedSubmit(m, m2, req) ==
  /\ req \in m.inflight /\ req \notin m2.inflight
  /\ req.phase = "answered" /\ req.kind \in {"insert", "update"}

(* After a rejection: nothing sent, dialog, form and toast as the failure  *)
(* leaves them.                                                            *)
FailureIsTerminal(m, m2, req) ==
  /\ m2.inflight = m.inflight \ {req}
  /\ m2.isDialogOpen = m.isDialogOpen
  /\ m2.formData = m.formData
  /\ m2.toast.variant = "destructive"

SuccessCloses(m, m2, req, formInit, fetch) ==
  /\ m2.isDialogOpen = FALSE
  /\ m2.formData = formInit
  /\ m2.toast.variant = "default"
  /\ \E f \in m2.inflight \ m.inflight : f.kind = fetch /\ f.phase = "sent"
  /\ Cardinality(m2.inflight \ m.inflight) = 1

(* A request the module did not have in flight was sent in this step.      *)
SentNow(m, m2, kinds) ==
  \E r \in m2.inflight \ m.inflight : r.phase = "sent" /\ r.kind \in kinds

SomeResumed(m, m2, ok) ==
  \E req \in m.inflight : ResumedSubmit(m, m2, req) /\ ((req.error = "none") <=> ok)

(* C16: when a module resumes after the store rejected its create or       *)
(* update, it shows the error and does nothing else: no request is sent,   *)
(* the dialog, the form data and the edit target stay as they are.  When   *)
(* it resumes after a success it closes the dialog, resets the form and    *)
(* the edit target and sends the fetch of the list.  A create or update is *)
(* sent only by a submission of the user, the list is fetched again only   *)
(* after a success, and an open dialog closes only after a success or by   *)
(* the user.                                                               *)
C16_FailureIsTerminal ==
  [][/\ \A req \in client.cm[1].inflight :
          ResumedSubmit(client.cm[1], client'.cm[1], req) =>
             IF req.error # "none"
             THEN /\ FailureIsTerminal(client.cm[1], client'.cm[1], req)
                  /\ client'.cm[1].editingCurso = client.cm[1].editingCurso
             ELSE /\ SuccessCloses(client.cm[1], client'.cm[1], req, CursosFormInit,
                                   "fetchCursos")
                  /\ client'.cm[1].editingCurso = NoRow
     /\ \A req \in client.am.inflight :
          ResumedSubmit(client.am, client'.am, req) =>
             IF req.error # "none"
             THEN /\ FailureIsTerminal(client.am, client'.am, req)
                  /\ client'.am.editingAluno = client.am.editingAluno
             ELSE /\ SuccessCloses(client.am, client'.am, req, AlunosFormInit,
                                   "fetchAlunos")
                  /\ client'.am.editingAluno = NoRow
     /\ \A req \in client.mm.inflight :
          ResumedSubmit(client.mm, client'.mm, req) =>
             IF req.error # "none"
             THEN FailureIsTerminal(client.mm, client'.mm, req)
             ELSE SuccessCloses(client.mm, client'.mm, req, MatriculasFormInit,
                                "fetchMatriculas")
     /\ SentNow(client.cm[1], client'.cm[1], {"insert", "update"}) => Cursos_handleSubmit(1)
     /\ SentNow(client.am, client'.am, {"insert", "update"}) => Alunos_handleSubmit
     /\ SentNow(client.mm, client'.mm, {"insert", "update"}) => Matriculas_handleSubmit
     /\ SentNow(client.cm[1], client'.cm[1], {"fetchCursos"}) =>
          SomeResumed(client.cm[1], client'.cm[1], TRUE)
     /\ SentNow(client.am, client'.am, {"fetchAlunos"}) =>
          SomeResumed(client.am, client'.am, TRUE)
     /\ SentNow(client.mm, client'.mm, {"fetchMatriculas"}) =>
          SomeResumed(client.mm, client'.mm, TRUE)
     /\ (client.cm[1].isDialogOpen /\ ~ client'.cm[1].isDialogOpen) =>
          SomeResumed(client.cm[1], client'.cm[1], TRUE) \/ Cursos_onOpenChange(1, FALSE)
     /\ (client.am.isDialogOpen /\ ~ client'.am.isDialogOpen) =>
          SomeResumed(client.am, client'.am, TRUE) \/ Alunos_onOpenChange(FALSE)
     /\ (client.mm.isDialogOpen /\ ~ client'.mm.isDialogOpen) =>
          SomeResumed(client.mm, client'.mm, TRUE) \/ Matriculas_onOpenChange(FALSE)]_vars

C16_Witness ==
  /\ client.tab = "cursos"
  /\ client.cm[1].toast.title = "Erro ao salvar curso"
  /\ last.stmt = "update" /\ last.table = "cursos" /\ last.error = "unique"
  /\ client.cm[1].inflight = {}
  /\ client.cm[1].isDialogOpen
  /\ client.cm[1].editingCurso # NoRow
  /\ client.cm[1].formData.nome = "ENG"

(* A step in which a module resumed after the answer to the mutation req.  *)
ResumedMutation(m, m2, req) ==
  /\ req \in m.inflight /\ req \notin m2.inflight
  /\ req.phase = "answered" /\ req.kind \in {"insert", "update", "delete"}

(* C15 as stated: when a module resumes after the store rejected its       *)
(* mutation, with an error or, for a delete the policy denies, by leaving  *)
(* the row as it was, it shows an error message.                           *)
C15_RejectionSurfaced ==
  [][/\ \A req \in client.cm[1].inflight :
          (/\ ResumedMutation(client.cm[1], client'.cm[1], req)
           /\ \/ req.error # "none"
              \/ req.kind = "delete" /\ \E c \in cursos : c.id = req.id) =>
             client'.cm[1].toast.variant = "destructive"
     /\ \A req \in client.am.inflight :
          (/\ ResumedMutation(client.am, client'.am, req)
           /\ \/ req.error # "none"
              \/ req.kind = "delete" /\ \E a \in alunos : a.id = req.id /\ a.status # "INATIVO") =>
             client'.am.toast.variant = "destructive"
     /\ \A req \in client.mm.inflight :
          (/\ ResumedMutation(client.mm, client'.mm, req)
           /\ \/ req.error # "none"
              \/ req.kind = "delete" /\ \E m \in matriculas : m.id = req.vals.id) =>
             client'.mm.toast.variant = "destructive"]_vars

(* A step in which the store executed the update request req of instance  *)
(* i of the course module.                                                 *)
Cursos_updateExecuted(i, req) ==
  /\ req \in client.cm[i].inflight /\ req.kind = "update" /\ req.phase = "sent"
  /\ req \notin client'.cm[i].inflight

HoldsFormData(row, formData) ==
  /\ row.nome = formData.nome
  /\ row.codigo_curso = formData.codigo_curso
  /\ row.duracao_semestres = formData.duracao_semestres

(* C17: each update of the course that either admin submits is applied by  *)
(* the store, in whatever order the two arrive and whatever the other      *)
(* admin has written meanwhile: it returns no error, affects the row, and  *)
(* leaves the row's name, code and duration equal to the submitted form    *)
(* data, so the row ends as the update applied last left it.  Each admin   *)
(* is shown the success message and never an error.                        *)
C17_LastWriteWins ==
  [][\A i \in CursoInstances :
       /\ \A req \in client.cm[i].inflight :
            Cursos_updateExecuted(i, req) =>
               /\ last'.error = "none" /\ last'.count = 1
               /\ Answer(req, "none", <<>>) \in client'.cm[i].inflight
               /\ Cardinality(cursos') = Cardinality(cursos)
               /\ HoldsFormData(RowById(cursos', req.id), req.vals)
       /\ \A req \in client.cm[i].inflight :
            ResumedSubmit(client.cm[i], client'.cm[i], req) =>
               client'.cm[i].toast.title = "Curso atualizado com sucesso!"
       /\ client'.cm[i].toast.variant # "destructive"]_vars

C17_Witness ==
  /\ \E r1 \in client.cm[1].inflight :
        /\ r1.kind = "update" /\ r1.phase = "answered" /\ r1.error = "none"
        /\ r1.vals.duracao_semestres = 6
  /\ \E r2 \in client.cm[2].inflight :
        /\ r2.kind = "update" /\ r2.phase = "answered" /\ r2.error = "none"
        /\ r2.vals.nome = "SIS" /\ r2.vals.duracao_semestres = 5
        /\ HoldsFormData(RowById(cursos, 1), r2.vals)
  /\ last.caller = 2

(* C18: every stored course has a duration of at least one term, whatever *)
(* statements reach the store, including statements that did not pass      *)
(* through the course module's cursoSchema.                                *)
C18_PositiveDuration ==
  \A c \in cursos : c.duracao_semestres >= 1

(* C19: once the course module has shown the success of a create and has  *)
(* processed the answer of every request it sent, the mount fetch and the  *)
(* fetch after the create in whichever order they were answered, its list  *)
(* is the stored courses, the new one included, in ascending order of      *)
(* name.                                                                   *)
C19_ListShowsCreated ==
  LET cm == client.cm[1]
  IN (cm.inflight = {} /\ cm.toast.title = "Curso cadastrado com sucesso!")
       => \E rows \in OrderedBy(cursos, "nome") :
             cm.cursos = [k \in DOMAIN rows |-> AsCurso(rows[k])]

(* A client statement on user_roles issued by a caller who does not hold  *)
(* the admin role when it is executed.                                     *)
NonAdminRoleStatement ==
  \E caller \in Callers :
     /\ ~ has_role(caller, "admin")
     /\ \/ \E u \in 1..MaxUsers, r \in app_role : InsertUserRole(caller, u, r)
        \/ \E id \in 1..MaxRoleRows, r \in app_role : UpdateUserRole(caller, id, [role |-> r])
        \/ \E id \in 1..MaxRoleRows : DeleteUserRole(caller, id)

AuthSubjectCreation ==
  \E email \in Emails : CreateAuthSubject(email, [nome_completo |-> "Ana"])

(* C20: a step that creates an auth subject, or that executes a statement  *)
(* of a caller without the admin role, leaves the user_roles rows as they  *)
(* were; the user a creation provisions holds no role, and no user gains   *)
(* the admin role in such a step.                                          *)
C20_NoPrivilegeEscalation ==
  [][(AuthSubjectCreation \/ NonAdminRoleStatement) =>
        /\ user_roles' = user_roles
        /\ \A a \in auth_users' \ auth_users :
              \A r \in user_roles' : r.user_id # a.id
        /\ \A u \in 1..MaxUsers :
              has_role(u, "admin")' => has_role(u, "admin")]_vars

C20_Witness ==
  /\ last.stmt = "insert" /\ last.table = "user_roles" /\ last.error = "rls"
  /\ last.row.role = "admin"
  /\ last.caller # NULL_UUID
  /\ last.row.user_id = last.caller
  /\ \E a \in auth_users : a.id = last.caller
  /\ ~ has_role(last.caller, "admin")
  /\ \E r \in user_roles : r.role = "admin"

(* A step of handleSubmit up to its await, and the call it sent if any.    *)
Auth_submitted == Auth_handleSubmit

Auth_sent == client'.shell.inflight \ client.shell.inflight

Auth_resumed(req) == Auth_handleSubmitResume(req)

(* C21, the steps: a submit calls signIn or signUp only with input its     *)
(* schema accepts (for sign-up, with password equal to confirmPassword),   *)
(* and then loading is true; a submit the schema refuses calls nothing and *)
(* leaves loading false.  The handler resumed with an error or an          *)
(* exception does not navigate; resumed without error it navigates to '/'. *)
(* A resumed handler of the mounted page leaves loading false.             *)
C21_SubmitSteps ==
  [][/\ Auth_submitted =>
          LET page == client.shell.page
          IN /\ \A req \in Auth_sent :
                  /\ client'.shell.page.loading
                  /\ req.kind = "signIn" => loginSchema(page) = <<>>
                  /\ req.kind = "signUp" =>
                        /\ signupSchema(page) = <<>>
                        /\ page.password = page.confirmPassword
                        /\ MatchesEmail(req.email) /\ Len(req.password) >= 6
             /\ Auth_sent = {} =>
                  /\ ~ client'.shell.page.loading
                  /\ client'.shell.toast.title = "Erro de validação"
     /\ \A req \in client.shell.inflight :
          Auth_resumed(req) =>
             /\ req.mounted => ~ client'.shell.page.loading
             /\ IF req.outcome = "returned" /\ req.error = "none"
                THEN /\ client'.shell.route = "/"
                     /\ client'.shell.nav = [to |-> "/", by |-> "handleSubmit"]
                ELSE /\ client'.shell.route = client.shell.route
                     /\ client'.shell.nav = client.shell.nav]_vars

(* C21: every submission that set loading to true is followed by loading   *)
(* being false again, and the steps are as described above.                *)
C21_LoadingReset ==
  /\ C21_SubmitSteps
  /\ (client.shell.page.loading ~> ~ client.shell.page.loading)

C21_Witness ==
  /\ client.shell.toast.title = "Conta criada com sucesso!"
  /\ client.shell.nav = [to |-> "/", by |-> "handleSubmit"]
  /\ client.shell.inflight = {}
  /\ ~ client.shell.page.loading
  /\ \E a \in auth_users : a.email = "bia@x.io"

(* What the Dashboard does in a step from sh to to: its controls (a tab    *)
(* trigger, the Header's sign-out) act only where loading is false and a   *)
(* user is present; it navigates to '/auth' only where loading is false    *)
(* and no user is present, and there it renders nothing; and the Auth page *)
(* it leads to does not redirect back.                                     *)
C22_DashboardSteps ==
  LET sh == client.shell
      to == client'.shell
  IN /\ (client'.tab # client.tab \/ (sh.user # NULL_UUID /\ to.user = NULL_UUID)) =>
          /\ sh.route = "/" /\ ~ sh.loading /\ sh.user # NULL_UUID
          /\ Dashboard_view(sh) = "Header, Tabs"
     /\ (sh.route = "/" /\ to.route = "/auth") =>
          /\ ~ sh.loading /\ sh.user = NULL_UUID
          /\ Dashboard_view(sh) = "null"
          /\ to.nav = [to |-> "/auth", by |-> "Dashboard"]
          /\ ~ Auth_redirects(to)

(* In no state are the redirects of both pages due, and a Dashboard shown  *)
(* with loading false and no user present leads to '/auth'.                *)
C22_RedirectSettles ==
  /\ [](~ (Auth_redirects([client.shell EXCEPT !.route = "/auth"])
            /\ Dashboard_redirects([client.shell EXCEPT !.route = "/"])))
  /\ (Dashboard_redirects(client.shell) ~> client.shell.route = "/auth")

(* C22 as stated: the Dashboard's steps are as above, the Auth page        *)
(* navigates to '/' only when a user is present, and then the Dashboard    *)
(* does not redirect back; in no state are both redirects due, and a       *)
(* Dashboard shown with loading false and no user leads to '/auth'.        *)
C22_Original ==
  /\ [][/\ C22_DashboardSteps
         /\ (client.shell.route = "/auth" /\ client'.shell.route = "/") =>
              /\ client.shell.user # NULL_UUID
              /\ ~ Dashboard_redirects(client'.shell)]_vars
  /\ C22_RedirectSettles

(* A step in which handleSubmit of the Auth page resumed after an answer   *)
(* of the provider that carries no error.                                  *)
Auth_resumedWithoutError ==
  \E req \in client.shell.inflight :
     /\ req.phase = "answered" /\ req.outcome = "returned" /\ req.error = "none"
     /\ req \notin client'.shell.inflight

(* C22: the Dashboard's steps are as above; the redirect in the body of    *)
(* Auth navigates to '/' only when a user is present, and then the         *)
(* Dashboard does not redirect back; the only other navigation of the Auth *)
(* page to '/' is that of handleSubmit after an answer without error,      *)
(* whether or not a user is present; in no state are both redirects due,   *)
(* and a Dashboard shown with loading false and no user leads to '/auth'.  *)
C22_PagesDoNotLoop ==
  /\ [][/\ C22_DashboardSteps
         /\ (client.shell.route = "/auth" /\ client'.shell.route = "/") =>
              IF client'.shell.nav.by = "Auth"
              THEN /\ client.shell.user # NULL_UUID
                   /\ ~ Dashboard_redirects(client'.shell)
              ELSE /\ client'.shell.nav = [to |-> "/", by |-> "handleSubmit"]
                   /\ Auth_resumedWithoutError]_vars
  /\ C22_RedirectSettles

(* A sign-in was answered without error and handleSubmit has navigated to  *)
(* '/' before the auth context published the user: the Dashboard renders   *)
(* nothing and its redirect is due.                                        *)
C22_Witness ==
  /\ client.shell.nav = [to |-> "/", by |-> "handleSubmit"]
  /\ client.shell.pending # NULL_UUID
  /\ Dashboard_redirects(client.shell)
  /\ Dashboard_view(client.shell) = "null"

(* What the view of a module whose userRole is not 'admin' lets happen in *)
(* a step from m to m2: no create, update or delete is sent, the dialog    *)
(* does not open, no row becomes the edit target, no submit is refused by  *)
(* validation; a change of userRole leaves the list as it is.              *)
NoMutationStarts(m, m2) ==
  /\ ~ SentNow(m, m2, {"insert", "update", "delete"})
  /\ m2.isDialogOpen => m.isDialogOpen
  /\ m2.toast.title = "Erro de validação" => m2.toast = m.toast

NoEditStarts(editing, editing2) == editing2 # NoRow => editing2 = editing

(* C23: while the userRole a module reads is not 'admin', none of          *)
(* handleSubmit, openEditDialog, handleDelete or the opening of the dialog *)
(* takes place in the students, courses or enrollments module, whatever    *)
(* its dialog state was when the role changed, and the list it shows is    *)
(* not affected by the role.                                               *)
C23_ControlsOnlyForAdmin ==
  [][/\ client.am.userRole # "admin" =>
          /\ NoMutationStarts(client.am, client'.am)
          /\ NoEditStarts(client.am.editingAluno, client'.am.editingAluno)
     /\ client.cm[1].userRole # "admin" =>
          /\ NoMutationStarts(client.cm[1], client'.cm[1])
          /\ NoEditStarts(client.cm[1].editingCurso, client'.cm[1].editingCurso)
     /\ client.mm.userRole # "admin" => NoMutationStarts(client.mm, client'.mm)
     /\ client'.shell.userRole # client.shell.userRole =>
          /\ client'.am.alunos = client.am.alunos
          /\ client'.cm[1].cursos = client.cm[1].cursos
          /\ client'.mm.matriculas = client.mm.matriculas]_vars

(* The role was withdrawn while the course dialog was open on a row: the   *)
(* list is shown, the dialog state is still open.                          *)
C23_Witness ==
  /\ client.tab = "cursos"
  /\ client.cm[1].userRole = "leitor"
  /\ client.cm[1].isDialogOpen
  /\ client.cm[1].editingCurso # NoRow
  /\ client.cm[1].cursos # <<>>

====
